---- MODULE Spec2Model ----
(***************************************************************************)
(* Inbound e-mail ingestion of django-helpdesk (helpdesk/email.py):        *)
(* process_email -> process_importer -> pop3_sync / imap_sync / local      *)
(* directory -> object_from_message -> create_object_from_email_message.   *)
(*                                                                         *)
(* Text is modelled as a sequence of tokens, so that lower-casing,         *)
(* equality and substring tests are computed and not assumed.  An e-mail   *)
(* address is <<local, "@", domain>>; the empty sequence is the empty      *)
(* string.                                                                 *)
(***************************************************************************)
EXTENDS Integers, Sequences, FiniteSets, TLC

VARIABLES
    tickets,      \* Ticket table: sequence of rows, the row index is the id
    followups,    \* FollowUp table: sequence of rows in creation (date) order
    ticketccs,    \* TicketCC table: set of rows [ticket, email]
    ignore_rules, \* IgnoreEmail table: sequence of rows in queryset order
    update_only,  \* settings.QUEUE_EMAIL_BOX_UPDATE_ONLY
    last,         \* the latest call of object_from_message: input and outcome;
                  \* replay: the call before it ingested the same message
    importers,    \* EmailImporter rows of this run, in queryset order
    run,          \* position of process_email in its loops
    mailbox,      \* per importer: what happened to each listed message
    workers       \* concurrent executions of create_object_from_email_message

vars == <<tickets, followups, ticketccs, ignore_rules, update_only, last,
          importers, run, mailbox, workers>>

dbvars == <<tickets, followups, ticketccs>>

----------------------------------------------------------------------------
(* Bounds of the model *)

\* messages handled in one behaviour of Spec
MaxIngest == 2
\* messages listed by one importer's mailbox in SpecRun
BatchLen == 2
\* tokens of a subject in SpecCall
MaxSubject == 2

----------------------------------------------------------------------------
(* Text *)

EmptyStr == <<>>

\* str.lower() on one token
LowerTok(t) ==
    CASE t = "Support" -> "support"
      [] t = "X.COM"   -> "x.com"
      [] t = "Printer" -> "printer"
      [] t = "NO"      -> "no"
      [] OTHER         -> t

\* str.lower()
Lower(s) == [i \in 1..Len(s) |-> LowerTok(s[i])]

\* Python's  e in s  on strings
IsSubstring(e, s) ==
    \E i \in 0..(Len(s) - Len(e)) : SubSeq(s, i + 1, i + Len(e)) = e

UserAddr      == <<"user", "@", "x.com">>
StaffAddr     == <<"staff", "@", "x.com">>
OtherAddr     == <<"other", "@", "corp.com">>
SupportAddr   == <<"support", "@", "x.com">>
SupportAddrUC == <<"Support", "@", "X.COM">>
SalesAddr     == <<"sales", "@", "x.com">>
SpamAddr      == <<"spam", "@", "evil.com">>
AdminAddr     == <<"admin", "@", "x.com">>
BillingAddr   == <<"billing", "@", "x.com">>

\* User rows: a user is identified by its e-mail; NoUser is Python's None
NoUser == EmptyStr
Users == {UserAddr, StaffAddr, AdminAddr}
StaffUsers == {StaffAddr, AdminAddr}

\* User.objects.filter(email=...).first()
UserByEmail(email) == IF email \in Users THEN email ELSE NoUser

\* helpdesk.decorators.is_helpdesk_staff(user, org)
is_helpdesk_staff(user) == user # NoUser /\ user \in StaffUsers

----------------------------------------------------------------------------
(* Ticket statuses (Ticket.*_STATUS) *)

OPEN_STATUS      == "OPEN"
REOPENED_STATUS  == "REOPENED"
REPLIED_STATUS   == "REPLIED"
RESOLVED_STATUS  == "RESOLVED"
CLOSED_STATUS    == "CLOSED"
DUPLICATE_STATUS == "DUPLICATE"

Statuses == {OPEN_STATUS, REOPENED_STATUS, REPLIED_STATUS, RESOLVED_STATUS,
             CLOSED_STATUS, DUPLICATE_STATUS}

NoStatus == "None"

----------------------------------------------------------------------------
(* Queues and importer configuration *)

\* Queue rows; a queue is referred to by its index in this sequence
Queues == <<
    [slug |-> "support", email_address |-> SupportAddr,
     default_owner |-> StaffAddr,
     match_on |-> <<"printer">>, match_on_addresses |-> <<>>],
    [slug |-> "sales", email_address |-> SalesAddr,
     default_owner |-> NoUser,
     match_on |-> <<"invoice">>, match_on_addresses |-> << <<"@", "corp.com">> >>],
    [slug |-> "billing", email_address |-> BillingAddr,
     default_owner |-> NoUser,
     match_on |-> <<>>, match_on_addresses |-> << <<"corp.com">> >>] >>

\* the queues dictionary built by process_email for one importer
QueuesOf(importer) ==
    [importer_queues |-> importer.queue_set,
     default_queue |-> importer.default_queue,
     matching_queues |->
         SelectSeq(importer.queue_set, LAMBDA q : Queues[q].match_on # <<>>),
     address_matching_queues |->
         SelectSeq(importer.queue_set,
                   LAMBDA q : Queues[q].match_on_addresses # <<>>)]

----------------------------------------------------------------------------
(* Messages.  A message is a record                                        *)
(*   from        value of the From header: an address, a display name       *)
(*               without address, or EmptyStr; from_present tells whether   *)
(*               the header exists at all                                   *)
(*   to, cc      sequences of addresses of the To and Cc headers           *)
(*   subject     sequence of subject tokens, see WordTok, TagTok, AffixTok *)
(*   message_id, in_reply_to   header values, "" when absent               *)
(*   delivered   X-BEAMHelpdesk-Delivered: [present, value]                *)
(*   auto_submitted, x_auto_response_suppress, list_id, list_unsubscribe   *)
(*               header values, "" when absent                             *)
(*   fault       where handling this message raises: "none", "header"      *)
(*               (decode_mail_headers, unknown charset of an encoded       *)
(*               word), "body" (unicode_escape of an 8bit utf-8 body),     *)
(*               "notify" (BadHeaderError out of send_ticket_mail)         *)

WordTok(w)      == [kind |-> "word", w |-> w, slug |-> "", id |-> 0]
TagTok(slug, n) == [kind |-> "tag", w |-> "", slug |-> slug, id |-> n]
AffixTok(w)     == [kind |-> "affix", w |-> w, slug |-> "", id |-> 0]

STRIPPED_SUBJECT_STRINGS == {"Re: ", "Fw: ", "RE: ", "FW: ", "Automatic reply: "}

\* subject.replace(affix, "") for every affix, then strip()
StripSubject(subject) ==
    SelectSeq(subject,
              LAMBDA t : ~(t.kind = "affix" /\ t.w \in STRIPPED_SUBJECT_STRINGS))

NoTicketId == -1
NoQueue == 0

\* re.match(r".*\[" + slug + r"-(?P<id>\d+)\]", subject): the greedy .* makes
\* the last tag of that slug the one whose digits are captured
TagMatch(slug, subject) ==
    LET hits == {i \in 1..Len(subject) :
                    subject[i].kind = "tag" /\ subject[i].slug = slug}
    IN IF hits = {} THEN NoTicketId
       ELSE subject[CHOOSE i \in hits : \A j \in hits : j <= i].id

\* re.compile(r'\b%s\b' % m, re.I).search(subject): m occurs as a whole word;
\* the slug inside a tag's brackets is a whole word too
KeywordMatch(m, subject) ==
    \E i \in 1..Len(subject) :
        \/ subject[i].kind \in {"word", "affix"} /\ LowerTok(subject[i].w) = LowerTok(m)
        \/ subject[i].kind = "tag" /\ LowerTok(subject[i].slug) = LowerTok(m)

\* mutant of TagLoop: a later queue with a tag overwrites an earlier one
RECURSIVE TagLoop_LastQueueWins(_, _, _, _)
TagLoop_LastQueueWins(qs, i, subject, acc) ==
    IF i > Len(qs) THEN acc
    ELSE LET id == TagMatch(Queues[qs[i]].slug, subject)
         IN TagLoop_LastQueueWins(qs, i + 1, subject,
                IF id # NoTicketId
                THEN [ticket |-> id, queue |-> qs[i]]
                ELSE acc)

\* the loop over queues['importer_queues'], lines 635-640
RECURSIVE TagLoop(_, _, _, _)
TagLoop(qs, i, subject, acc) ==
    IF i > Len(qs) THEN acc
    ELSE LET id == TagMatch(Queues[qs[i]].slug, subject)
         IN TagLoop(qs, i + 1, subject,
                    IF id # NoTicketId /\ acc.ticket = NoTicketId
                    THEN [ticket |-> id, queue |-> qs[i]]
                    ELSE acc)

\* mutant of KeywordLoop: a later queue with a keyword overwrites an earlier one
RECURSIVE KeywordLoop_LastQueueWins(_, _, _, _)
KeywordLoop_LastQueueWins(qs, i, subject, queue) ==
    IF i > Len(qs) THEN queue
    ELSE KeywordLoop_LastQueueWins(qs, i + 1, subject,
             IF \E k \in 1..Len(Queues[qs[i]].match_on) :
                    KeywordMatch(Queues[qs[i]].match_on[k], subject)
             THEN qs[i]
             ELSE queue)

\* the loop over queues['matching_queues'], lines 643-649
RECURSIVE KeywordLoop(_, _, _, _)
KeywordLoop(qs, i, subject, queue) ==
    IF i > Len(qs) THEN queue
    ELSE KeywordLoop(qs, i + 1, subject,
             IF queue = NoQueue
                /\ \E k \in 1..Len(Queues[qs[i]].match_on) :
                       KeywordMatch(Queues[qs[i]].match_on[k], subject)
             THEN qs[i]
             ELSE queue)

\* the loop over queues['address_matching_queues'], lines 652-655: every
\* matching queue is assigned, there is no test of queue inside the loop
RECURSIVE AddressLoop(_, _, _, _)
AddressLoop(qs, i, sender_lower, queue) ==
    IF i > Len(qs) THEN queue
    ELSE AddressLoop(qs, i + 1, sender_lower,
             IF \E k \in 1..Len(Queues[qs[i]].match_on_addresses) :
                    IsSubstring(Lower(Queues[qs[i]].match_on_addresses[k]),
                                sender_lower)
             THEN qs[i]
             ELSE queue)

\* lines 633-658: the tracking id and the queue of a message
Classify(m, queues) ==
    LET subject == StripSubject(m.subject)
        tagged == TagLoop(queues.importer_queues, 1, subject,
                          [ticket |-> NoTicketId, queue |-> NoQueue])
        q1 == IF tagged.ticket = NoTicketId
              THEN KeywordLoop(queues.matching_queues, 1, subject, tagged.queue)
              ELSE tagged.queue
        q2 == IF q1 = NoQueue
              THEN AddressLoop(queues.address_matching_queues, 1,
                               Lower(m.from), q1)
              ELSE q1
        q3 == IF q2 = NoQueue THEN queues.default_queue ELSE q2
    IN [ticket |-> tagged.ticket, queue |-> q3]

\* line 615: message.get('from', _('Unknown Sender'))
FromHeader(m) ==
    IF m.from_present THEN m.from ELSE <<"Unknown", " ", "Sender">>

\* email.utils.parseaddr(value)[1]: the address as written, '' for an empty
\* value, and the first word of a value that holds words but no address
parseaddr(value) ==
    IF value = EmptyStr THEN EmptyStr
    ELSE IF Len(value) = 3 /\ value[2] = "@" THEN value
    ELSE <<value[1]>>

\* IgnoreEmail.test(address)
IgnoreTest(rule, address) == rule.email_address = address

\* IgnoreEmail.objects.filter(Q(importers=importer) | Q(importers__isnull=True))
IgnoreRulesFor(rules, importer) ==
    SelectSeq(rules,
              LAMBDA r : importer.id \in r.importers \/ r.importers = {})

\* mutant of IgnoreLoop: the two return values are exchanged
RECURSIVE IgnoreLoop_KeepInverted(_, _, _)
IgnoreLoop_KeepInverted(rules, i, addresses) ==
    IF i > Len(rules) THEN "none"
    ELSE IF \E k \in 1..Len(addresses) : IgnoreTest(rules[i], addresses[k])
         THEN IF rules[i].keep_in_mailbox THEN "True" ELSE "False"
         ELSE IgnoreLoop_KeepInverted(rules, i + 1, addresses)

\* lines 625-631: the first rule, in queryset order, that matches the sender
\* or a To or Cc address decides; "none" when no rule matches
RECURSIVE IgnoreLoop(_, _, _)
IgnoreLoop(rules, i, addresses) ==
    IF i > Len(rules) THEN "none"
    ELSE IF \E k \in 1..Len(addresses) : IgnoreTest(rules[i], addresses[k])
         THEN IF rules[i].keep_in_mailbox THEN "False" ELSE "True"
         ELSE IgnoreLoop(rules, i + 1, addresses)

\* mutant of is_autoreply: Auto-Submitted is compared without lower()
is_autoreply_CaseSensitive(m) ==
    \/ (m.auto_submitted # "" /\ m.auto_submitted # "no")
    \/ m.x_auto_response_suppress \in {"DR", "AutoReply", "All"}
    \/ m.list_id # ""
    \/ m.list_unsubscribe # ""

\* is_autoreply(message)
is_autoreply(m) ==
    \/ (m.auto_submitted # "" /\ LowerTok(m.auto_submitted) # "no")
    \/ m.x_auto_response_suppress \in {"DR", "AutoReply", "All"}
    \/ m.list_id # ""
    \/ m.list_unsubscribe # ""

----------------------------------------------------------------------------
(* The datastore.                                                          *)
(*   Ticket row    [queue, status, merged_to, submitter_email, assigned_to]*)
(*   FollowUp row  [ticket, message_id, public, new_status, title]         *)
(*   TicketCC row  [ticket, email]                                         *)

NoTicket == 0

\* Ticket.objects.filter(pk=id).exists()
TicketExists(tks, id) == id \in 1..Len(tks)

\* FollowUp.objects.filter(message_id=in_reply_to).order_by('-date').first():
\* the index of the latest FollowUp carrying that message id, 0 when none
PreviousFollowUp(fus, in_reply_to) ==
    LET hits == {i \in 1..Len(fus) : fus[i].message_id = in_reply_to}
    IN IF hits = {} THEN 0 ELSE CHOOSE i \in hits : \A j \in hits : j <= i

\* mutant of ResolveTicket: the tracking id is looked up before In-Reply-To
ResolveTicket_TagFirst(tks, fus, m, ticket_id) ==
    LET pf == IF m.in_reply_to # "" THEN PreviousFollowUp(fus, m.in_reply_to) ELSE 0
    IN IF ticket_id # NoTicketId /\ TicketExists(tks, ticket_id)
       THEN IF tks[ticket_id].merged_to # NoTicket
            THEN tks[ticket_id].merged_to
            ELSE ticket_id
       ELSE IF pf # 0 THEN fus[pf].ticket
       ELSE NoTicket

\* lines 450-474: the ticket a message continues, NoTicket when none.  Only
\* the ticket found by its tracking id is redirected to merged_to, by one hop
ResolveTicket(tks, fus, m, ticket_id) ==
    LET pf == IF m.in_reply_to # "" THEN PreviousFollowUp(fus, m.in_reply_to) ELSE 0
    IN IF pf # 0 THEN fus[pf].ticket
       ELSE IF ticket_id # NoTicketId /\ TicketExists(tks, ticket_id)
            THEN IF tks[ticket_id].merged_to # NoTicket
                 THEN tks[ticket_id].merged_to
                 ELSE ticket_id
            ELSE NoTicket

\* mutant of NewTicketRow: the queue's default owner is not assigned
NewTicketRow_Unassigned(m, queue) ==
    [queue |-> queue, status |-> OPEN_STATUS, merged_to |-> NoTicket,
     submitter_email |-> m.from,
     assigned_to |-> NoUser]

\* lines 482-493: the row of Ticket.objects.create(...)
NewTicketRow(m, queue) ==
    [queue |-> queue, status |-> OPEN_STATUS, merged_to |-> NoTicket,
     submitter_email |-> m.from,
     assigned_to |-> Queues[queue].default_owner]

\* mutant of NewFollowUpRow: the FollowUp is created private
NewFollowUpRow_Private(m, ticket) ==
    [ticket |-> ticket, message_id |-> m.message_id, public |-> FALSE,
     new_status |-> NoStatus, title |-> "received"]

\* lines 498-505: the row of FollowUp.objects.create(...)
NewFollowUpRow(m, ticket) ==
    [ticket |-> ticket, message_id |-> m.message_id, public |-> TRUE,
     new_status |-> NoStatus, title |-> "received"]

\* Python's  a is not b  on two objects loaded by separate queries: two model
\* instances are never the same object, only None is None
IsNot(a, b) == ~(a = NoUser /\ b = NoUser)

ClosedStatuses == {CLOSED_STATUS, RESOLVED_STATUS, DUPLICATE_STATUS}

\* mutant of StatusTransition: an external update also moves REOPENED to OPEN
StatusTransition_ReopenedToOpen(t, sender_email) ==
    LET updater == UserByEmail(sender_email)
        submitter == UserByEmail(t.submitter_email)
        updater_is_staff == is_helpdesk_staff(updater)
        submitter_is_staff == is_helpdesk_staff(submitter)
    IN IF (submitter_is_staff /\ IsNot(updater, t.assigned_to)) \/ ~updater_is_staff
       THEN IF t.status \in ClosedStatuses THEN REOPENED_STATUS
            ELSE IF t.status \in {REPLIED_STATUS, REOPENED_STATUS} THEN OPEN_STATUS
            ELSE NoStatus
       ELSE IF t.status \notin ClosedStatuses THEN REPLIED_STATUS
            ELSE NoStatus

\* mutant of StatusTransition: an external update leaves a REPLIED ticket
StatusTransition_RepliedKept(t, sender_email) ==
    LET updater == UserByEmail(sender_email)
        submitter == UserByEmail(t.submitter_email)
        updater_is_staff == is_helpdesk_staff(updater)
        submitter_is_staff == is_helpdesk_staff(submitter)
    IN IF (submitter_is_staff /\ IsNot(updater, t.assigned_to)) \/ ~updater_is_staff
       THEN IF t.status \in ClosedStatuses THEN REOPENED_STATUS
            ELSE NoStatus
       ELSE IF t.status \notin ClosedStatuses THEN REPLIED_STATUS
            ELSE NoStatus

\* mutant of StatusTransition: a staff reply reopens a closed ticket
StatusTransition_StaffReopens(t, sender_email) ==
    LET updater == UserByEmail(sender_email)
        submitter == UserByEmail(t.submitter_email)
        updater_is_staff == is_helpdesk_staff(updater)
        submitter_is_staff == is_helpdesk_staff(submitter)
    IN IF (submitter_is_staff /\ IsNot(updater, t.assigned_to)) \/ ~updater_is_staff
       THEN IF t.status \in ClosedStatuses THEN REOPENED_STATUS
            ELSE IF t.status = REPLIED_STATUS THEN OPEN_STATUS
            ELSE NoStatus
       ELSE IF t.status \notin ClosedStatuses THEN REPLIED_STATUS
            ELSE REOPENED_STATUS

\* lines 508-530: the status an update writes, NoStatus when it writes none
StatusTransition(t, sender_email) ==
    LET updater == UserByEmail(sender_email)
        submitter == UserByEmail(t.submitter_email)
        updater_is_staff == is_helpdesk_staff(updater)
        submitter_is_staff == is_helpdesk_staff(submitter)
    IN IF (submitter_is_staff /\ IsNot(updater, t.assigned_to)) \/ ~updater_is_staff
       THEN IF t.status \in ClosedStatuses THEN REOPENED_STATUS
            ELSE IF t.status = REPLIED_STATUS THEN OPEN_STATUS
            ELSE NoStatus
       ELSE IF t.status \notin ClosedStatuses THEN REPLIED_STATUS
            ELSE NoStatus

\* lines 516-530: the ticket row as ticket.save() writes it
UpdatedTicketRow(t, sender_email) ==
    LET ns == StatusTransition(t, sender_email)
    IN IF ns = NoStatus THEN t ELSE [t EXCEPT !.status = ns]

\* mutant of UpdatedFollowUpRow: the marker is the status the ticket had
UpdatedFollowUpRow_OldStatus(f, t, sender_email) ==
    LET ns == StatusTransition(t, sender_email)
    IN [f EXCEPT !.new_status = IF ns = NoStatus THEN NoStatus ELSE t.status,
                 !.title = IF ns = REOPENED_STATUS THEN "reopened" ELSE f.title]

\* lines 516-532: the FollowUp row as f.save() writes it
UpdatedFollowUpRow(f, t, sender_email) ==
    LET ns == StatusTransition(t, sender_email)
    IN [f EXCEPT !.new_status = ns,
                 !.title = IF ns = REOPENED_STATUS THEN "reopened" ELSE f.title]

\* a syntactically valid address
ValidEmail(email) == Len(email) = 3 /\ email[2] = "@"

\* helpdesk.views.staff.subscribe_to_ticket_updates: adds the subscription
\* unless it exists; an invalid address raises ValidationError, which
\* create_ticket_cc swallows
subscribe_to_ticket_updates(ccs, ticket, email) ==
    IF ValidEmail(email) THEN ccs \cup {[ticket |-> ticket, email |-> email]}
    ELSE ccs

\* create_ticket_cc(ticket, cc_list)
RECURSIVE create_ticket_cc(_, _, _, _, _)
create_ticket_cc(ccs, tks, ticket, cc_list, i) ==
    IF i > Len(cc_list) THEN ccs
    ELSE create_ticket_cc(
             IF cc_list[i] = Queues[tks[ticket].queue].email_address
             THEN ccs
             ELSE subscribe_to_ticket_updates(ccs, ticket, cc_list[i]),
             tks, ticket, cc_list, i + 1)

----------------------------------------------------------------------------
(* Outcome of one call: the tables as the call leaves them, ret the value  *)
(* returned ("Ticket", "True", "False") or "Raised" with the exception in  *)
(* exc, ticket the ticket returned, notify the notification dispatched.    *)

Outcome(tks, fus, ccs, ret, exc, ticket, new, notify) ==
    [tickets |-> tks, followups |-> fus, ticketccs |-> ccs, ret |-> ret,
     exc |-> exc, ticket |-> ticket, new |-> new, notify |-> notify]

\* create_object_from_email_message(message, ticket_id, payload, files, logger)
create_object_from_email_message(tks, fus, ccs, upd, m, ticket_id, queue) ==
    LET found == ResolveTicket(tks, fus, m, ticket_id)
        new == found = NoTicket /\ ~upd
        tks1 == IF new THEN Append(tks, NewTicketRow(m, queue)) ELSE tks
        ticket == IF new THEN Len(tks1) ELSE found
    IN IF ticket = NoTicket
       THEN \* update-only mode and no ticket: FollowUp.objects.create(ticket=None)
            \* and ticket.submitter_email on None both raise
            Outcome(tks, fus, ccs, "Raised", "AttributeError", NoTicket, FALSE, "none")
       ELSE LET f0 == NewFollowUpRow(m, ticket)
                tks2 == IF new THEN tks1
                        ELSE [tks1 EXCEPT ![ticket] = UpdatedTicketRow(@, m.from)]
                f1 == IF new THEN f0 ELSE UpdatedFollowUpRow(f0, tks1[ticket], m.from)
                fus1 == Append(fus, f1)
                ccs1 == create_ticket_cc(ccs, tks2, ticket, m.to \o m.cc, 1)
                notify == IF is_autoreply(m) THEN "none"
                          ELSE IF new THEN "new" ELSE "updated"
            IN IF notify # "none" /\ m.fault = "notify"
               THEN Outcome(tks2, fus1, ccs1, "Raised", "BadHeaderError", ticket, new, "none")
               ELSE Outcome(tks2, fus1, ccs1, "Ticket", "none", ticket, new, notify)

\* mutant of IsForwardingLoop: the sender is compared without lower()
IsForwardingLoop_CaseSensitive(m, queue) ==
    m.delivered.present \/ m.from = Queues[queue].email_address

\* lines 660-663: the forwarding-loop test on the resolved queue
IsForwardingLoop(m, queue) ==
    m.delivered.present \/ Lower(m.from) = Lower(Queues[queue].email_address)

\* mutant of LoopCleanup: the forwarded addresses are removed from every ticket
LoopCleanup_EveryTicket(tks, ccs, m, ticket_id, queue) ==
    IF ticket_id # NoTicketId /\ TicketExists(tks, ticket_id)
    THEN LET auto_forward ==
                 IF Lower(m.from) = Lower(Queues[queue].email_address)
                    /\ ~m.delivered.present
                 THEN m.to
                 ELSE m.delivered.value
         IN {cc \in ccs :
                ~(\E k \in 1..Len(auto_forward) :
                         Lower(cc.email) = Lower(auto_forward[k]))}
    ELSE ccs

\* lines 665-675: the TicketCC rows left by the loop branch
LoopCleanup(tks, ccs, m, ticket_id, queue) ==
    IF ticket_id # NoTicketId /\ TicketExists(tks, ticket_id)
    THEN LET auto_forward ==
                 IF Lower(m.from) = Lower(Queues[queue].email_address)
                    /\ ~m.delivered.present
                 THEN m.to
                 ELSE m.delivered.value
         IN {cc \in ccs :
                ~(cc.ticket = ticket_id
                  /\ \E k \in 1..Len(auto_forward) :
                         Lower(cc.email) = Lower(auto_forward[k]))}
    ELSE ccs

\* object_from_message(message, importer, queues, logger)
object_from_message(tks, fus, ccs, rules, upd, message, importer) ==
    LET m == [message EXCEPT !.from = parseaddr(FromHeader(message))]
    IN
    IF m.fault = "header"
    THEN Outcome(tks, fus, ccs, "Raised", "LookupError", NoTicket, FALSE, "none")
    ELSE IF m.from = EmptyStr
    THEN Outcome(tks, fus, ccs, "True", "none", NoTicket, FALSE, "none")
    ELSE LET ignored == IgnoreLoop(IgnoreRulesFor(rules, importer), 1,
                                   <<m.from>> \o m.to \o m.cc)
             c == Classify(m, QueuesOf(importer))
         IN IF ignored # "none"
            THEN Outcome(tks, fus, ccs, ignored, "none", NoTicket, FALSE, "none")
            ELSE IF IsForwardingLoop(m, c.queue)
            THEN Outcome(tks, fus, LoopCleanup(tks, ccs, m, c.ticket, c.queue),
                         "True", "none", NoTicket, FALSE, "none")
            ELSE IF m.fault = "body"
            THEN Outcome(tks, fus, ccs, "Raised", "UnicodeDecodeError", NoTicket, FALSE, "none")
            ELSE create_object_from_email_message(tks, fus, ccs, upd, m,
                                                  c.ticket, c.queue)

----------------------------------------------------------------------------
(* Inputs *)

NoDelivered == [present |-> FALSE, value |-> <<>>]

BaseMsg ==
    [from |-> UserAddr, from_present |-> TRUE, to |-> <<>>, cc |-> <<>>,
     subject |-> <<WordTok("hello")>>,
     message_id |-> "m9", in_reply_to |-> "",
     delivered |-> NoDelivered,
     auto_submitted |-> "", x_auto_response_suppress |-> "",
     list_id |-> "", list_unsubscribe |-> "",
     fault |-> "none"]

\* an importer row with every queue attached
Importer1 ==
    [id |-> 1, queue_set |-> <<1, 2>>, default_queue |-> 1,
     email_box_type |-> "imap", keep_mail |-> FALSE, gmail |-> FALSE,
     socks_proxy |-> FALSE, session |-> "ok"]

NoLast ==
    [msg |-> BaseMsg, importer |-> 0, ret |-> "none", exc |-> "none",
     ticket |-> NoTicket, new |-> FALSE, notify |-> "none", replay |-> FALSE]

IngestSubjects ==
    { <<WordTok("hello")>>,
      <<AffixTok("Re: "), TagTok("support", 1), WordTok("printer")>>,
      <<TagTok("support", 9)>> }

\* messages of the ticket-ingestion specification
IngestMessages ==
    LET thread == {[BaseMsg EXCEPT !.from = f, !.subject = sj, !.in_reply_to = r] :
                      f \in {UserAddr, StaffAddr}, sj \in IngestSubjects,
                      r \in {"", "m1", "m9"}}
        fresh == BaseMsg
        tagged == [BaseMsg EXCEPT !.subject = <<TagTok("support", 1)>>]
    IN thread
       \cup {[m EXCEPT !.to = <<OtherAddr, SupportAddr>>, !.cc = <<SupportAddrUC>>] :
                 m \in {fresh, tagged}}
       \cup {[m EXCEPT !.fault = "notify"] : m \in {fresh, tagged}}
       \cup {[fresh EXCEPT !.fault = "body"],
             [tagged EXCEPT !.list_unsubscribe = "u"]}

\* merged_to of tickets 1 and 2 before the run: nothing merged, ticket 1
\* merged into ticket 2, and ticket 2 in turn merged into ticket 3
MergeConfigs == { <<NoTicket, NoTicket>>, <<2, NoTicket>>, <<2, 3>> }

\* the Ticket table before the run: ticket 1 in any status
InitTickets ==
    {<< [queue |-> 1, status |-> s1, merged_to |-> mc[1], submitter_email |-> sub,
         assigned_to |-> StaffAddr],
        [queue |-> 1, status |-> OPEN_STATUS, merged_to |-> mc[2],
         submitter_email |-> UserAddr, assigned_to |-> NoUser],
        [queue |-> 1, status |-> CLOSED_STATUS, merged_to |-> NoTicket,
         submitter_email |-> UserAddr, assigned_to |-> NoUser] >> :
     s1 \in Statuses, sub \in {UserAddr, StaffAddr}, mc \in MergeConfigs}

InitFollowUps ==
    << [ticket |-> 1, message_id |-> "m1", public |-> TRUE,
        new_status |-> NoStatus, title |-> "received"],
       [ticket |-> 2, message_id |-> "m2", public |-> TRUE,
        new_status |-> NoStatus, title |-> "received"] >>

----------------------------------------------------------------------------
(* Spec: messages handed one after the other to object_from_message *)

\* one call of object_from_message on message m for importer number i
Ingest(m, i) ==
    \E o \in {object_from_message(tickets, followups, ticketccs, ignore_rules,
                                  update_only, m, importers[i])} :
       /\ tickets' = o.tickets
       /\ followups' = o.followups
       /\ ticketccs' = o.ticketccs
       /\ last' = [msg |-> m, importer |-> i, ret |-> o.ret, exc |-> o.exc,
                   ticket |-> o.ticket, new |-> o.new, notify |-> o.notify,
                   replay |-> (last.ret = "Ticket" /\ last.msg = m)]

Init ==
    /\ tickets \in InitTickets
    /\ followups = InitFollowUps
    /\ ticketccs = {}
    /\ ignore_rules = <<>>
    /\ update_only \in BOOLEAN
    /\ last = NoLast
    /\ importers = <<Importer1>>
    /\ run = [pc |-> "ingest", n |-> 0]
    /\ mailbox = <<>>
    /\ workers = <<>>

IngestStep ==
    /\ run.pc = "ingest"
    /\ run.n < MaxIngest
    /\ \E m \in IngestMessages : Ingest(m, 1)
    /\ run' = [run EXCEPT !.n = @ + 1]
    /\ UNCHANGED <<ignore_rules, update_only, importers, mailbox, workers>>

Next == IngestStep

Spec == Init /\ [][Next]_vars

----------------------------------------------------------------------------
(* Properties of ticket ingestion, checked under Spec *)

\* the message reaches create_object_from_email_message: no guard of
\* object_from_message returns or raises before it
ReachesIngestion(m, importer) ==
    /\ m.fault \notin {"header", "body"}
    /\ parseaddr(FromHeader(m)) # EmptyStr
    /\ IgnoreLoop(IgnoreRulesFor(ignore_rules, importer), 1,
                  <<parseaddr(FromHeader(m))>> \o m.to \o m.cc) = "none"
    /\ ~IsForwardingLoop([m EXCEPT !.from = parseaddr(FromHeader(m))],
                         Classify([m EXCEPT !.from = parseaddr(FromHeader(m))],
                                  QueuesOf(importer)).queue)

\* the step is a call of object_from_message
IsCall == last' # last

\* C4 as claimed: processing an ingested message again leaves the Ticket and
\* FollowUp tables as the first processing left them
C4_ReplayChangesNothing ==
    [][(IsCall /\ last'.replay) => (tickets' = tickets /\ followups' = followups)]_vars

\* C4, what the code does keep: a message processed again is ingested again,
\* adding exactly one more FollowUp with the same Message-Id and a further
\* Ticket only if the first processing created one; every existing ticket
\* row, its status included, stays as the first processing left it
C4_ReplayAddsFollowUpKeepsStatus ==
    [][(IsCall /\ last'.replay) =>
          /\ last'.ret = "Ticket"
          /\ Len(followups') = Len(followups) + 1
          /\ SubSeq(followups', 1, Len(followups)) = followups
          /\ followups'[Len(followups')].message_id = last'.msg.message_id
          /\ (last'.new => last.new)
          /\ Len(tickets') = Len(tickets) + (IF last'.new THEN 1 ELSE 0)
          /\ SubSeq(tickets', 1, Len(tickets)) = tickets]_vars

\* C4 witness: a closed ticket was reopened by a message and the same message
\* was then processed a second time
C4_Witness ==
    /\ last.replay
    /\ last.ret = "Ticket"
    /\ ~last.new
    /\ tickets[last.ticket].status = REOPENED_STATUS
    /\ followups[Len(followups)].new_status = NoStatus
    /\ followups[Len(followups) - 1].new_status = REOPENED_STATUS

\* C5 as claimed: ingestion adds no FollowUp to, and changes no status of, a
\* ticket whose merged_to is set
C5_MergedTicketUntouched ==
    [][\A t \in 1..Len(tickets) :
          tickets[t].merged_to # NoTicket =>
              /\ tickets'[t].status = tickets[t].status
              /\ \A i \in 1..Len(followups') :
                     followups'[i].ticket = t => i <= Len(followups)]_vars

\* C6 as claimed: in update-only mode a message that resolves no ticket creates
\* nothing, raises nothing and ends as the handled sentinel
C6_UpdateOnlyUnmatchedIsNoOp ==
    [][(/\ IsCall
        /\ update_only
        /\ ReachesIngestion(last'.msg, importers[last'.importer])
        /\ ResolveTicket(tickets, followups, last'.msg,
                         Classify(last'.msg, QueuesOf(importers[last'.importer])).ticket)
               = NoTicket)
       => (/\ last'.exc = "none"
           /\ last'.ret = "True"
           /\ tickets' = tickets
           /\ followups' = followups)]_vars

----------------------------------------------------------------------------
(* SpecGuard: the guards of object_from_message (unparsable sender, ignore *)
(* list, forwarding loop) on messages that vary in sender, recipients,     *)
(* tracking tag and loop-marker header, under several ignore lists         *)

\* an importer row with the sales queue only
Importer2 ==
    [id |-> 2, queue_set |-> <<2>>, default_queue |-> 2,
     email_box_type |-> "pop3", keep_mail |-> FALSE, gmail |-> FALSE,
     socks_proxy |-> FALSE, session |-> "ok"]

IgnoreRule(address, keep, scope) ==
    [email_address |-> address, keep_in_mailbox |-> keep, importers |-> scope]

\* IgnoreEmail tables: no rule, one rule, two rules that can match the same
\* message with different keep flags, a rule scoped to the other importer
IgnoreConfigs ==
    { <<>>,
      <<IgnoreRule(SpamAddr, FALSE, {})>>,
      <<IgnoreRule(SpamAddr, TRUE, {})>>,
      <<IgnoreRule(SpamAddr, TRUE, {}), IgnoreRule(OtherAddr, FALSE, {})>>,
      <<IgnoreRule(OtherAddr, FALSE, {}), IgnoreRule(SpamAddr, TRUE, {})>>,
      <<IgnoreRule(SpamAddr, TRUE, {2}), IgnoreRule(SupportAddrUC, FALSE, {1})>> }

GuardMessages ==
    LET plain == {[BaseMsg EXCEPT !.from = f, !.to = t, !.subject = sj, !.delivered = d] :
                     f \in {EmptyStr, UserAddr, SpamAddr, SupportAddrUC},
                     t \in {<<>>, <<SpamAddr>>, <<OtherAddr, SupportAddr>>},
                     sj \in {<<WordTok("hello")>>,
                             <<AffixTok("Re: "), TagTok("support", 1)>>},
                     d \in {NoDelivered,
                            [present |-> TRUE, value |-> <<OtherAddr>>]}}
    IN plain
       \cup {[BaseMsg EXCEPT !.from = f, !.fault = "header",
                             !.delivered = [present |-> TRUE, value |-> <<OtherAddr>>]] :
                f \in {SpamAddr, UserAddr}}

GuardTickets ==
    << [queue |-> 1, status |-> OPEN_STATUS, merged_to |-> NoTicket,
        submitter_email |-> UserAddr, assigned_to |-> StaffAddr],
       [queue |-> 2, status |-> CLOSED_STATUS, merged_to |-> NoTicket,
        submitter_email |-> UserAddr, assigned_to |-> NoUser] >>

GuardTicketCCs ==
    { [ticket |-> 1, email |-> SupportAddrUC],
      [ticket |-> 1, email |-> OtherAddr],
      [ticket |-> 2, email |-> OtherAddr] }

GuardInit ==
    /\ tickets = GuardTickets
    /\ followups = InitFollowUps
    /\ ticketccs = GuardTicketCCs
    /\ ignore_rules \in IgnoreConfigs
    /\ update_only = FALSE
    /\ last = NoLast
    /\ importers = <<Importer1, Importer2>>
    /\ run = [pc |-> "ingest", n |-> 0]
    /\ mailbox = <<>>
    /\ workers = <<>>

GuardStep ==
    /\ run.pc = "ingest"
    /\ run.n < MaxIngest
    /\ \E m \in GuardMessages : \E i \in 1..Len(importers) : Ingest(m, i)
    /\ run' = [run EXCEPT !.n = @ + 1]
    /\ UNCHANGED <<ignore_rules, update_only, importers, mailbox, workers>>

GuardNext == GuardStep

SpecGuard == GuardInit /\ [][GuardNext]_vars

----------------------------------------------------------------------------
(* Properties of the guards, checked under SpecGuard *)

\* the queue the routing rules resolve for the message of the call
ResolvedQueue(call) == Classify(call.msg, QueuesOf(importers[call.importer])).queue

\* the message of the call is a forwarding loop: it carries the loop-marker
\* header, or its sender is the resolved queue's own address in any case
IsLoopCall(call) ==
    \/ call.msg.delivered.present
    \/ Lower(call.msg.from) = Lower(Queues[ResolvedQueue(call)].email_address)

\* indices of the ignore rules that apply to the importer of the call and match
\* the sender or a To or Cc address of its message
MatchingRules(call) ==
    {i \in 1..Len(ignore_rules) :
        /\ (ignore_rules[i].importers = {}
            \/ importers[call.importer].id \in ignore_rules[i].importers)
        /\ \E a \in {call.msg.from} \cup {call.msg.to[k] : k \in 1..Len(call.msg.to)}
                      \cup {call.msg.cc[k] : k \in 1..Len(call.msg.cc)} :
               IgnoreTest(ignore_rules[i], a)}

FirstMatchingRule(call) ==
    ignore_rules[CHOOSE i \in MatchingRules(call) : \A j \in MatchingRules(call) : i <= j]

\* the first matching rule keeps the message of the call in the mailbox
KeptByIgnoreRule(call) ==
    /\ call.msg.from # EmptyStr
    /\ MatchingRules(call) # {}
    /\ FirstMatchingRule(call).keep_in_mailbox

----------------------------------------------------------------------------
(* SpecRun: one run of process_email over two enabled importers.  Every     *)
(* importer owns a mailbox of BatchLen messages; the run logs in, fetches    *)
(* the messages in order, hands each to object_from_message and             *)
(* acknowledges it according to the value returned.                          *)

\* mutant of Truthy: the test  if ticket is not None
Truthy_NotNone(ticket) == ticket # "None"

\* lines 169, 265, 361: the truth value of  if ticket:  for a Ticket, True,
\* False and None
Truthy(ticket) == ticket \in {"Ticket", "True"}

\* lines 171, 270, 274, 364: the acknowledgment the transport issues
AckOf(importer) ==
    IF importer.email_box_type = "pop3" THEN "dele"
    ELSE IF importer.email_box_type = "imap"
         THEN IF importer.keep_mail THEN "Answered" ELSE "Deleted"
         ELSE "unlink"

\* lines 258-264: the exceptions of object_from_message the transport catches
Caught(importer, exc) ==
    importer.email_box_type = "imap" /\ exc \in {"TypeError", "BadHeaderError"}

\* importer rows of the first importer of the run: the three transports with
\* a working session, and the ways a session fails before any message is read
RunImporters ==
    { [Importer1 EXCEPT !.email_box_type = "pop3"],
      [Importer1 EXCEPT !.keep_mail = TRUE],
      Importer1,
      [Importer1 EXCEPT !.email_box_type = "local"],
      [Importer1 EXCEPT !.session = "ssl"],
      [Importer1 EXCEPT !.session = "abort"],
      [Importer1 EXCEPT !.session = "search_error"],
      [Importer1 EXCEPT !.gmail = TRUE, !.session = "refresh_fail"],
      [Importer1 EXCEPT !.email_box_type = "pop3", !.session = "connect"],
      [Importer1 EXCEPT !.email_box_type = "pop3", !.socks_proxy = TRUE],
      [Importer1 EXCEPT !.email_box_type = "pop3", !.default_queue = NoQueue] }

\* importer rows of the second importer of the run
RunImporters2 ==
    { Importer2,
      [Importer2 EXCEPT !.email_box_type = "imap", !.keep_mail = TRUE],
      [Importer2 EXCEPT !.email_box_type = "local"] }

\* messages of a mailbox: one that opens a ticket, one that updates ticket 1,
\* a forwarding loop, one from an ignored sender kept in the mailbox, one whose
\* body fails to decode and one whose notification is refused
RunMessages ==
    { BaseMsg,
      [BaseMsg EXCEPT !.subject = <<AffixTok("Re: "), TagTok("support", 1)>>,
                      !.message_id = "m8"],
      [BaseMsg EXCEPT !.delivered = [present |-> TRUE, value |-> <<OtherAddr>>],
                      !.message_id = "m7"],
      [BaseMsg EXCEPT !.from = SpamAddr, !.message_id = "m6"],
      [BaseMsg EXCEPT !.fault = "body", !.message_id = "m5"],
      [BaseMsg EXCEPT !.fault = "notify", !.message_id = "m4"] }

\* a listed message: not fetched, not acknowledged
Listed(m) == [msg |-> m, fetched |-> FALSE, ret |-> "none", exc |-> "none",
              ack |-> "none"]

\* the mailboxes a server can list: every sequence of BatchLen messages
RunBatches == [1..BatchLen -> RunMessages]

\* no SOCKS proxy is the default of the process
NoProxy == 0

\* no connection to the mail server was made
NotConnected == -1

MailboxOf(batch) ==
    [visited |-> FALSE, closed |-> FALSE, via |-> NotConnected,
     msgs |-> [k \in 1..BatchLen |-> Listed(batch[k])]]

RunInit ==
    /\ tickets = <<GuardTickets[1]>>
    /\ followups = <<InitFollowUps[1]>>
    /\ ticketccs = {}
    /\ ignore_rules = <<IgnoreRule(SpamAddr, TRUE, {})>>
    /\ update_only = FALSE
    /\ last = NoLast
    /\ \E i1 \in RunImporters, i2 \in RunImporters2 : importers = <<i1, i2>>
    /\ \E socks \in BOOLEAN :
          run = [pc |-> "importer", imp |-> 1, pos |-> 1, exc |-> "none",
                 socks |-> socks, proxy |-> NoProxy]
    /\ \E b \in RunBatches :
          mailbox = <<MailboxOf(b), MailboxOf([k \in 1..BatchLen |-> BaseMsg])>>
    /\ workers = <<>>

\* the importer the loop of process_email is at
Current == importers[run.imp]

AtImporter == run.pc = "importer" /\ run.imp <= Len(importers)

\* lines 292-300: an importer with proxy settings needs the socks library
ProxyReady(importer) == importer.socks_proxy => run.socks

\* lines 307-310: socks.set_default_proxy and the assignment to socket.socket
\* act on the modules of the process; an importer without proxy settings
\* leaves both as they are.  A proxy is named by the importer it belongs to
DefaultProxy(importer) ==
    IF importer.socks_proxy THEN importer.id ELSE run.proxy

\* lines 338-350: the server constructors open their connection with
\* socket.socket, through the default proxy if one is set; the local
\* transport opens none
Route(importer) ==
    IF importer.email_box_type = "local" THEN NotConnected
    ELSE DefaultProxy(importer)

\* mutant of SkipImporter: an importer without default queue ends the run
SkipImporter_EndsRun ==
    /\ AtImporter
    /\ Current.default_queue = NoQueue
    /\ mailbox' = [mailbox EXCEPT ![run.imp].visited = TRUE]
    /\ run' = [run EXCEPT !.pc = "done"]
    /\ UNCHANGED <<dbvars, ignore_rules, update_only, last, importers, workers>>

\* lines 95-96: an importer without default queue is logged and passed over
SkipImporter ==
    /\ AtImporter
    /\ Current.default_queue = NoQueue
    /\ mailbox' = [mailbox EXCEPT ![run.imp].visited = TRUE]
    /\ run' = [run EXCEPT !.imp = @ + 1]
    /\ UNCHANGED <<dbvars, ignore_rules, update_only, last, importers, workers>>

\* lines 292-300 and 345-348: the proxy library is missing, or the server
\* constructor fails to connect; the exception leaves process_email
ImporterRaises ==
    /\ AtImporter
    /\ Current.default_queue # NoQueue
    /\ ~ProxyReady(Current) \/ Current.session = "connect"
    /\ mailbox' = [mailbox EXCEPT ![run.imp].visited = TRUE]
    /\ run' = [run EXCEPT !.pc = "raised",
                          !.exc = IF ~ProxyReady(Current) THEN "ImportError"
                                  ELSE "OSError",
                          !.proxy = IF ProxyReady(Current)
                                    THEN DefaultProxy(Current) ELSE @]
    /\ UNCHANGED <<dbvars, ignore_rules, update_only, last, importers, workers>>

\* lines 182-198 and 224-237: token refresh fails, or login raises IMAP4.abort
\* or ssl.SSLError: imap_sync calls sys.exit()
ImporterExits ==
    /\ AtImporter
    /\ Current.default_queue # NoQueue
    /\ ProxyReady(Current)
    /\ Current.email_box_type = "imap"
    /\ \/ Current.gmail /\ Current.session = "refresh_fail"
       \/ ~Current.gmail /\ Current.session \in {"abort", "ssl"}
    /\ mailbox' = [mailbox EXCEPT ![run.imp].visited = TRUE,
                                  ![run.imp].via = Route(Current)]
    /\ run' = [run EXCEPT !.pc = "exited", !.exc = "SystemExit",
                          !.proxy = DefaultProxy(Current)]
    /\ UNCHANGED <<dbvars, ignore_rules, update_only, last, importers, workers>>

\* lines 239-243 and 278-282: the search raises IMAP4.error, which is logged;
\* no message is read and the session is closed
SearchFails ==
    /\ AtImporter
    /\ Current.default_queue # NoQueue
    /\ ProxyReady(Current)
    /\ Current.email_box_type = "imap"
    /\ Current.session = "search_error"
    /\ mailbox' = [mailbox EXCEPT ![run.imp].visited = TRUE,
                                  ![run.imp].via = Route(Current)]
    /\ run' = [run EXCEPT !.pc = "messages", !.pos = Len(mailbox[run.imp].msgs) + 1,
                          !.proxy = DefaultProxy(Current)]
    /\ UNCHANGED <<dbvars, ignore_rules, update_only, last, importers, workers>>

\* lines 137-147, 216-246, 352-355: login succeeds and the messages are listed
BeginImporter ==
    /\ AtImporter
    /\ Current.default_queue # NoQueue
    /\ ProxyReady(Current)
    /\ Current.session = "ok"
    /\ mailbox' = [mailbox EXCEPT ![run.imp].visited = TRUE,
                                  ![run.imp].via = Route(Current)]
    /\ run' = [run EXCEPT !.pc = "messages", !.pos = 1,
                          !.proxy = DefaultProxy(Current)]
    /\ UNCHANGED <<dbvars, ignore_rules, update_only, last, importers, workers>>

AtMessage == run.pc = "messages" /\ run.pos <= Len(mailbox[run.imp].msgs)

\* mutant of ProcessMessage: the acknowledgment goes to the message before the
\* one just processed
ProcessMessage_AckPrevious ==
    /\ AtMessage
    /\ \E m \in {mailbox[run.imp].msgs[run.pos].msg} :
          /\ Ingest(m, run.imp)
          /\ last'.exc # "none" => Caught(Current, last'.exc)
          /\ \E ticket \in {IF last'.exc = "none" THEN last'.ret ELSE "None"} :
                mailbox' = [mailbox EXCEPT
                               ![run.imp].msgs[run.pos] =
                                   [msg |-> m, fetched |-> TRUE, ret |-> last'.ret,
                                    exc |-> last'.exc, ack |-> "none"],
                               ![run.imp].msgs[IF run.pos > 1 THEN run.pos - 1 ELSE 1].ack =
                                   IF Truthy(ticket) THEN AckOf(Current) ELSE @]
    /\ run' = [run EXCEPT !.pos = @ + 1]
    /\ UNCHANGED <<ignore_rules, update_only, importers, workers>>

\* lines 149-174, 248-277, 356-370: the message is fetched and handed to
\* object_from_message; it is acknowledged if the value returned is true
ProcessMessage ==
    /\ AtMessage
    /\ \E m \in {mailbox[run.imp].msgs[run.pos].msg} :
          /\ Ingest(m, run.imp)
          /\ last'.exc # "none" => Caught(Current, last'.exc)
          /\ \E ticket \in {IF last'.exc = "none" THEN last'.ret ELSE "None"} :
                mailbox' = [mailbox EXCEPT ![run.imp].msgs[run.pos] =
                               [msg |-> m, fetched |-> TRUE, ret |-> last'.ret,
                                exc |-> last'.exc,
                                ack |-> IF Truthy(ticket) THEN AckOf(Current)
                                        ELSE "none"]]
    /\ run' = [run EXCEPT !.pos = @ + 1]
    /\ UNCHANGED <<ignore_rules, update_only, importers, workers>>

\* the same lines when object_from_message raises an exception the transport
\* does not catch: it leaves the loop, the sync function and process_email
MessageRaises ==
    /\ AtMessage
    /\ \E m \in {mailbox[run.imp].msgs[run.pos].msg} :
          /\ Ingest(m, run.imp)
          /\ last'.exc # "none"
          /\ ~Caught(Current, last'.exc)
          /\ mailbox' = [mailbox EXCEPT ![run.imp].msgs[run.pos] =
                            [msg |-> m, fetched |-> TRUE, ret |-> last'.ret,
                             exc |-> last'.exc, ack |-> "none"]]
          /\ run' = [run EXCEPT !.pc = "raised", !.exc = last'.exc]
    /\ UNCHANGED <<ignore_rules, update_only, importers, workers>>

\* lines 176, 284-286 and 116-117: the session is closed and the loop of
\* process_email moves to the next importer
EndImporter ==
    /\ run.pc = "messages"
    /\ run.pos > Len(mailbox[run.imp].msgs)
    /\ mailbox' = [mailbox EXCEPT ![run.imp].closed = TRUE]
    /\ run' = [run EXCEPT !.pc = "importer", !.imp = @ + 1, !.pos = 1]
    /\ UNCHANGED <<dbvars, ignore_rules, update_only, last, importers, workers>>

\* line 65: no importer is left
EndRun ==
    /\ run.pc = "importer"
    /\ run.imp > Len(importers)
    /\ run' = [run EXCEPT !.pc = "done"]
    /\ UNCHANGED <<dbvars, ignore_rules, update_only, last, importers, mailbox,
                   workers>>

RunNext ==
    \/ SkipImporter
    \/ ImporterRaises
    \/ ImporterExits
    \/ SearchFails
    \/ BeginImporter
    \/ ProcessMessage
    \/ MessageRaises
    \/ EndImporter
    \/ EndRun

SpecRun == RunInit /\ [][RunNext]_vars

----------------------------------------------------------------------------
(* Properties of the run, checked under SpecRun *)

\* process_email has returned or was left by an exception or by sys.exit()
RunEnded == run.pc \in {"done", "raised", "exited"}

\* C2 as claimed: a message on which object_from_message raised is left
\* un-acknowledged, and the run does not end before every later message of
\* its mailbox was fetched
C2_RaisingMessageKeepsBatchGoing ==
    \A i \in 1..Len(mailbox) : \A k \in 1..Len(mailbox[i].msgs) :
        mailbox[i].msgs[k].exc # "none" =>
            /\ mailbox[i].msgs[k].ack = "none"
            /\ RunEnded => \A j \in (k + 1)..Len(mailbox[i].msgs) :
                               mailbox[i].msgs[j].fetched

\* C3 as claimed: the run does not end before the loop of process_email has
\* reached every enabled importer
C3_FailedImporterKeepsRunGoing ==
    RunEnded => \A i \in 1..Len(importers) : mailbox[i].visited

\* C9: for each transport, a fetched message is acknowledged, with the
\* transport's own acknowledgment, exactly when object_from_message returned a
\* ticket or the handled sentinel True, and is left in the mailbox when it
\* returned False or raised
C9_AckMatchesOutcome ==
    \A i \in 1..Len(mailbox) : \A k \in 1..Len(mailbox[i].msgs) :
        LET e == mailbox[i].msgs[k]
        IN /\ ~e.fetched => e.ack = "none"
           /\ e.fetched =>
                 /\ e.ret \in {"Ticket", "True", "False", "Raised"}
                 /\ e.ret \in {"Ticket", "True"} => e.ack = AckOf(importers[i])
                 /\ e.ret \in {"False", "Raised"} => e.ack = "none"

\* C9 witness: in one mailbox the sentinel was acknowledged and the retained
\* message left, and the other mailbox acknowledged a ticket its own way
C9_Witness ==
    /\ \E k, j \in 1..Len(mailbox[1].msgs) :
          /\ mailbox[1].msgs[k].ret = "True"
          /\ mailbox[1].msgs[k].ack = AckOf(importers[1])
          /\ mailbox[1].msgs[j].ret = "False"
          /\ mailbox[1].msgs[j].fetched
          /\ mailbox[1].msgs[j].ack = "none"
    /\ mailbox[2].msgs[1].ret = "Ticket"
    /\ mailbox[2].msgs[1].ack = AckOf(importers[2])
    /\ AckOf(importers[1]) # AckOf(importers[2])

\* C33: the messages of a mailbox are handled one at a time in listing order:
\* a step touches one message only, the one the loop is at; this message was
\* not fetched before, every message listed before it has been fetched, no
\* message listed after it is fetched or acknowledged, and an acknowledgment
\* is written in the step that fetches and ingests the message, to that
\* message
C33_OneMessageAtATimeInOrder ==
    [][\A i \in 1..Len(mailbox) : \A k \in 1..Len(mailbox[i].msgs) :
          mailbox'[i].msgs[k] # mailbox[i].msgs[k] =>
             /\ i = run.imp
             /\ k = run.pos
             /\ ~mailbox[i].msgs[k].fetched
             /\ mailbox'[i].msgs[k].fetched
             /\ last'.msg = mailbox[i].msgs[k].msg
             /\ \A j \in 1..(k - 1) :
                   /\ mailbox[i].msgs[j].fetched
                   /\ mailbox'[i].msgs[j] = mailbox[i].msgs[j]
             /\ \A j \in (k + 1)..Len(mailbox[i].msgs) :
                   /\ ~mailbox'[i].msgs[j].fetched
                   /\ mailbox'[i].msgs[j].ack = "none"]_vars

\* C33 witness: the first message of a mailbox was fetched and left, the
\* second was fetched after it and acknowledged
C33_Witness ==
    /\ run.pc = "messages"
    /\ run.imp = 1
    /\ run.pos > 2
    /\ mailbox[1].msgs[1].fetched
    /\ mailbox[1].msgs[1].ack = "none"
    /\ mailbox[1].msgs[2].fetched
    /\ mailbox[1].msgs[2].ack = AckOf(importers[1])

\* C38: when the loop of process_email is at an importer without default
\* queue, its step opens no connection, fetches and acknowledges no message
\* of the mailbox, calls object_from_message for none, writes no row, leaves
\* the importer rows (the last check among them) as they are, and goes on to
\* the next importer
C38_NoDefaultQueueNeverPolled ==
    [][(AtImporter /\ Current.default_queue = NoQueue)
       => /\ UNCHANGED <<dbvars, importers, last>>
          /\ mailbox'[run.imp].msgs = mailbox[run.imp].msgs
          /\ mailbox'[run.imp].via = NotConnected
          /\ \A k \in 1..Len(mailbox[run.imp].msgs) :
                ~mailbox'[run.imp].msgs[k].fetched
          /\ run'.proxy = run.proxy
          /\ run'.pc = "importer"
          /\ run'.imp = run.imp + 1]_vars

\* C38 witness: the first importer has no default queue; the run has passed
\* it without fetching from its mailbox and has fetched a message of the
\* second importer
C38_Witness ==
    /\ importers[1].default_queue = NoQueue
    /\ mailbox[1].visited
    /\ mailbox[1].via = NotConnected
    /\ \A k \in 1..Len(mailbox[1].msgs) : ~mailbox[1].msgs[k].fetched
    /\ run.imp = 2
    /\ mailbox[2].msgs[1].fetched
    /\ last.importer = 2
    /\ Len(tickets) = 2

\* C37 as claimed: the connection of an importer without proxy settings is
\* not routed through a SOCKS proxy
C37_ProxyIsPerImporter ==
    \A i \in 1..Len(importers) :
        ~importers[i].socks_proxy => mailbox[i].via \in {NotConnected, NoProxy}

----------------------------------------------------------------------------
(* SpecConc: two importer processes execute create_object_from_email_message *)
(* at the same time, each on one message.  The function opens no             *)
(* transaction and locks no row, so every ORM call is a step of its own,     *)
(* committed when it returns and visible to every other connection; the      *)
(* Ticket instance a process loaded is its private copy until it saves it.   *)

\* the messages of the two processes: from a user or from staff, continuing
\* ticket 1 by tracking tag or by In-Reply-To, or opening a ticket with a Cc
ConcMessages ==
    {[BaseMsg EXCEPT !.from = f, !.subject = <<TagTok("support", 1)>>] :
        f \in {UserAddr, StaffAddr}}
    \cup {[BaseMsg EXCEPT !.from = f, !.in_reply_to = "m1", !.cc = <<OtherAddr>>] :
             f \in {UserAddr, StaffAddr}}
    \cup {[BaseMsg EXCEPT !.cc = <<OtherAddr>>]}

\* the Ticket table before the two processes start
ConcTickets ==
    {<< [queue |-> 1, status |-> s, merged_to |-> NoTicket,
         submitter_email |-> sub, assigned_to |-> StaffAddr] >> :
     s \in Statuses, sub \in {UserAddr, StaffAddr}}

\* a process at the entry of create_object_from_email_message; queue and
\* ticket_id are the arguments object_from_message computed
Worker(m, importer, id) ==
    [msg |-> [m EXCEPT !.message_id = id],
     queue |-> Classify(m, QueuesOf(importer)).queue,
     ticket_id |-> Classify(m, QueuesOf(importer)).ticket,
     pc |-> "resolve", ticket |-> NoTicket, new |-> FALSE,
     snap |-> NewTicketRow(m, Classify(m, QueuesOf(importer)).queue),
     f |-> 0]

ConcInit ==
    /\ tickets \in ConcTickets
    /\ followups = <<InitFollowUps[1]>>
    /\ ticketccs = {}
    /\ ignore_rules = <<>>
    /\ update_only = FALSE
    /\ last = NoLast
    /\ importers = <<Importer1, [Importer1 EXCEPT !.id = 2]>>
    /\ run = [pc |-> "conc", tickets0 |-> tickets, followups0 |-> followups]
    /\ mailbox = <<>>
    /\ \E m1 \in ConcMessages, m2 \in ConcMessages :
          workers = <<Worker(m1, importers[1], "m8"), Worker(m2, importers[2], "m9")>>

\* lines 450-474: the queries that resolve the ticket; the row is loaded into
\* the process
LoadTicket(w) ==
    /\ workers[w].pc = "resolve"
    /\ \E t \in {ResolveTicket(tickets, followups, workers[w].msg,
                               workers[w].ticket_id)} :
          workers' = [workers EXCEPT
                         ![w].ticket = t,
                         ![w].snap = IF t = NoTicket THEN @ ELSE tickets[t],
                         ![w].pc = IF t = NoTicket THEN "create" ELSE "followup"]
    /\ UNCHANGED <<dbvars, ignore_rules, update_only, last, importers, run, mailbox>>

\* lines 477-496: Ticket.objects.create
CreateTicket(w) ==
    /\ workers[w].pc = "create"
    /\ ~update_only
    /\ tickets' = Append(tickets, workers[w].snap)
    /\ workers' = [workers EXCEPT ![w].ticket = Len(tickets) + 1,
                                  ![w].new = TRUE,
                                  ![w].pc = "followup"]
    /\ UNCHANGED <<followups, ticketccs, ignore_rules, update_only, last,
                   importers, run, mailbox>>

\* lines 498-505: FollowUp.objects.create
CreateFollowUp(w) ==
    /\ workers[w].pc = "followup"
    /\ followups' = Append(followups, NewFollowUpRow(workers[w].msg, workers[w].ticket))
    /\ workers' = [workers EXCEPT ![w].f = Len(followups) + 1,
                                  ![w].pc = IF workers[w].new THEN "cc"
                                            ELSE "save_ticket"]
    /\ UNCHANGED <<tickets, ticketccs, ignore_rules, update_only, last,
                   importers, run, mailbox>>

\* lines 507-531: the status is computed on the loaded row and ticket.save()
\* writes that row
SaveTicket(w) ==
    /\ workers[w].pc = "save_ticket"
    /\ tickets' = [tickets EXCEPT ![workers[w].ticket] =
                      UpdatedTicketRow(workers[w].snap, workers[w].msg.from)]
    /\ workers' = [workers EXCEPT ![w].pc = "save_followup"]
    /\ UNCHANGED <<followups, ticketccs, ignore_rules, update_only, last,
                   importers, run, mailbox>>

\* line 532: f.save()
SaveFollowUp(w) ==
    /\ workers[w].pc = "save_followup"
    /\ followups' = [followups EXCEPT ![workers[w].f] =
                        UpdatedFollowUpRow(@, workers[w].snap, workers[w].msg.from)]
    /\ workers' = [workers EXCEPT ![w].pc = "cc"]
    /\ UNCHANGED <<tickets, ticketccs, ignore_rules, update_only, last,
                   importers, run, mailbox>>

\* line 547: create_ticket_cc
SubscribeCC(w) ==
    /\ workers[w].pc = "cc"
    /\ ticketccs' = create_ticket_cc(ticketccs, tickets, workers[w].ticket,
                                     workers[w].msg.to \o workers[w].msg.cc, 1)
    /\ workers' = [workers EXCEPT ![w].pc = "notify"]
    /\ UNCHANGED <<tickets, followups, ignore_rules, update_only, last,
                   importers, run, mailbox>>

\* lines 549-597: the notifications are sent and the ticket is returned
Return(w) ==
    /\ workers[w].pc = "notify"
    /\ workers' = [workers EXCEPT ![w].pc = "done"]
    /\ UNCHANGED <<dbvars, ignore_rules, update_only, last, importers, run, mailbox>>

ConcNext ==
    \/ \E w \in 1..Len(workers) : LoadTicket(w)
    \/ \E w \in 1..Len(workers) : CreateTicket(w)
    \/ \E w \in 1..Len(workers) : CreateFollowUp(w)
    \/ \E w \in 1..Len(workers) : SaveTicket(w)
    \/ \E w \in 1..Len(workers) : SaveFollowUp(w)
    \/ \E w \in 1..Len(workers) : SubscribeCC(w)
    \/ \E w \in 1..Len(workers) : Return(w)

SpecConc == ConcInit /\ [][ConcNext]_vars

----------------------------------------------------------------------------
(* Properties of concurrent ingestion, checked under SpecConc *)

\* the addresses create_ticket_cc subscribes for message m routed to queue
CCOf(m, queue) ==
    {a \in {(m.to \o m.cc)[k] : k \in 1..Len(m.to \o m.cc)} :
        ValidEmail(a) /\ a # Queues[queue].email_address}

\* C7 as claimed, on the tables as any other connection reads them: a ticket
\* created by ingestion has its FollowUp; a ticket whose status an ingested
\* message changed has the FollowUp that records the new status; the FollowUp
\* of a message comes with the CC subscriptions of that message
C7_WritesVisibleTogether ==
    /\ \A t \in (Len(run.tickets0) + 1)..Len(tickets) :
          \E i \in 1..Len(followups) : followups[i].ticket = t
    /\ \A t \in 1..Len(run.tickets0) :
          tickets[t].status # run.tickets0[t].status =>
              \E i \in (Len(run.followups0) + 1)..Len(followups) :
                  /\ followups[i].ticket = t
                  /\ followups[i].new_status # NoStatus
    /\ \A i \in (Len(run.followups0) + 1)..Len(followups) :
          \A w \in 1..Len(workers) :
              workers[w].msg.message_id = followups[i].message_id =>
                  \A a \in CCOf(workers[w].msg, tickets[followups[i].ticket].queue) :
                      [ticket |-> followups[i].ticket, email |-> a] \in ticketccs

\* the Ticket table after process a and then process b ran alone
Serial(a, b) ==
    LET o == object_from_message(run.tickets0, run.followups0, {}, ignore_rules,
                                 update_only, workers[a].msg, importers[a])
    IN object_from_message(o.tickets, o.followups, o.ticketccs, ignore_rules,
                           update_only, workers[b].msg, importers[b]).tickets

\* C8 as claimed: when both processes updated the same existing ticket and are
\* done, its status is the one a sequential order of the two messages gives
C8_StatusOfSomeSerialOrder ==
    (/\ \A w \in 1..Len(workers) : workers[w].pc = "done"
     /\ workers[1].ticket = workers[2].ticket
     /\ ~workers[1].new)
    => tickets[workers[1].ticket].status
           \in {Serial(1, 2)[workers[1].ticket].status,
                Serial(2, 1)[workers[1].ticket].status}

----------------------------------------------------------------------------
(* SpecCall: one call of object_from_message on any message, for any        *)
(* importer, on a table holding a ticket in any status.  Subjects are all   *)
(* sequences of up to MaxSubject tokens: tracking tags of both queues,       *)
(* keywords of both queues, a neutral word and a reply prefix.               *)

\* importer rows: both queues with the support queue first and as default,
\* both queues with the sales queue first and as default, the sales queue only
CallImporters ==
    << Importer1,
       [Importer1 EXCEPT !.id = 3, !.queue_set = <<2, 1>>, !.default_queue = 2],
       Importer2,
       [Importer1 EXCEPT !.id = 4, !.queue_set = <<1, 2, 3>>] >>

CallTokens ==
    { TagTok("support", 1), TagTok("support", 9), TagTok("sales", 1),
      WordTok("Printer"), WordTok("invoice"), WordTok("invoices"),
      WordTok("hello"), AffixTok("Re: ") }

CallSubjects ==
    UNION {[1..n -> CallTokens] : n \in 1..MaxSubject}

\* messages that vary in subject, with a sender that matches no address rule
\* and one that matches the address rule of the sales queue
RoutedMessages ==
    {[BaseMsg EXCEPT !.subject = sj, !.from = f] :
        sj \in CallSubjects, f \in {UserAddr, OtherAddr}}

\* replies to ticket 1 by tracking tag, from users, staff and a stranger, with
\* and without an In-Reply-To that names a FollowUp of ticket 1 or of ticket 2
ThreadMessages ==
    {[BaseMsg EXCEPT !.subject = <<AffixTok("Re: "), TagTok("support", 1)>>,
                     !.from = f, !.in_reply_to = r] :
        f \in {UserAddr, StaffAddr, AdminAddr, OtherAddr},
        r \in {"", "m1", "m2", "m7"}}

\* messages that vary in the headers read by is_autoreply
HeaderMessages ==
    LET bases == {[BaseMsg EXCEPT !.cc = <<OtherAddr>>],
                  [BaseMsg EXCEPT !.cc = <<OtherAddr>>,
                                  !.subject = <<TagTok("support", 1)>>]}
    IN {[b EXCEPT !.auto_submitted = a] :
           b \in bases, a \in {"no", "NO", "auto-replied"}}
       \cup {[b EXCEPT !.x_auto_response_suppress = x] :
                b \in bases, x \in {"DR", "AutoReply", "All", "all"}}
       \cup {[b EXCEPT !.list_id = "l"] : b \in bases}
       \cup {[b EXCEPT !.list_unsubscribe = "u"] : b \in bases}
       \cup {[b EXCEPT !.fault = "notify"] : b \in bases}
       \cup {[b EXCEPT !.fault = "notify", !.list_id = "l"] : b \in bases}

\* messages that vary in the From header: absent, empty, a display name
\* without address; alone and with a recipient on the ignore list
SenderMessages ==
    LET bases == {BaseMsg,
                  [BaseMsg EXCEPT !.subject = <<TagTok("support", 1)>>,
                                  !.to = <<SpamAddr>>],
                  [BaseMsg EXCEPT !.delivered = [present |-> TRUE,
                                                 value |-> <<OtherAddr>>]]}
    IN {[b EXCEPT !.from_present = FALSE, !.from = EmptyStr] : b \in bases}
       \cup {[b EXCEPT !.from = EmptyStr] : b \in bases}
       \cup {[b EXCEPT !.from = <<"John", " ", "Doe">>] : b \in bases}
       \cup {[b EXCEPT !.from = SpamAddr] : b \in bases}

\* messages that vary in the To and Cc headers: the address of the queue as
\* stored and in upper case, another address, a text that is no address
RecipientMessages ==
    {[b EXCEPT !.to = t, !.cc = c] :
        b \in {BaseMsg, [BaseMsg EXCEPT !.subject = <<TagTok("support", 1)>>]},
        t \in {<<OtherAddr, SupportAddr>>, << <<"nobody">>, OtherAddr >>},
        c \in {<<>>, <<SupportAddrUC>>, <<AdminAddr>>}}

CallMessages ==
    RoutedMessages \cup ThreadMessages \cup HeaderMessages \cup SenderMessages
        \cup RecipientMessages

\* ticket 1 in any status with a submitter and an assignee that are staff or
\* not; ticket 2 in the sales queue
CallTickets ==
    {<< [queue |-> 1, status |-> s, merged_to |-> NoTicket,
         submitter_email |-> p[1], assigned_to |-> p[2]],
        [queue |-> 2, status |-> CLOSED_STATUS, merged_to |-> NoTicket,
         submitter_email |-> UserAddr, assigned_to |-> NoUser] >> :
     s \in Statuses,
     p \in { <<UserAddr, StaffAddr>>, <<StaffAddr, StaffAddr>>,
             <<StaffAddr, NoUser>>, <<OtherAddr, AdminAddr>> }}

CallInit ==
    /\ tickets \in CallTickets
    /\ followups = InitFollowUps
    /\ ticketccs = {[ticket |-> 1, email |-> UserAddr]}
    /\ ignore_rules = <<IgnoreRule(SpamAddr, TRUE, {})>>
    /\ update_only = FALSE
    /\ last = NoLast
    /\ importers = CallImporters
    /\ run = [pc |-> "ingest", n |-> 0]
    /\ mailbox = <<>>
    /\ workers = <<>>

CallStep ==
    /\ run.pc = "ingest"
    /\ run.n = 0
    /\ \E m \in CallMessages : \E i \in 1..Len(importers) : Ingest(m, i)
    /\ run' = [run EXCEPT !.n = @ + 1]
    /\ UNCHANGED <<ignore_rules, update_only, importers, mailbox, workers>>

CallNext == CallStep

SpecCall == CallInit /\ [][CallNext]_vars

----------------------------------------------------------------------------
(* Properties of one call, checked under SpecCall *)

\* the message with the address parseaddr finds in its From header
Parsed(m) == [m EXCEPT !.from = parseaddr(FromHeader(m))]

\* the headers decode, the sender has an address and no ignore rule matches
PassesGuards(m, importer) ==
    /\ m.fault # "header"
    /\ Parsed(m).from # EmptyStr
    /\ IgnoreLoop(IgnoreRulesFor(ignore_rules, importer), 1,
                  <<Parsed(m).from>> \o m.to \o m.cc) = "none"

\* positions, in the importer's queue list, of the queues named by a tracking
\* tag of the subject
TaggedPositions(m, importer) ==
    {i \in 1..Len(importer.queue_set) :
        \E k \in 1..Len(m.subject) :
            /\ m.subject[k].kind = "tag"
            /\ m.subject[k].slug = Queues[importer.queue_set[i]].slug}

\* the first queue of the importer, in iteration order, that a tag names
FirstTaggedQueue(m, importer) ==
    importer.queue_set[CHOOSE i \in TaggedPositions(m, importer) :
                           \A j \in TaggedPositions(m, importer) : i <= j]

\* the digits of the tags of the subject that name queue q
TagIds(m, q) ==
    {m.subject[k].id : k \in {j \in 1..Len(m.subject) :
                                 /\ m.subject[j].kind = "tag"
                                 /\ m.subject[j].slug = Queues[q].slug}}

\* the digits of the last tag of the subject that names queue q
LastTagId(m, q) ==
    m.subject[CHOOSE k \in 1..Len(m.subject) :
                 /\ m.subject[k].kind = "tag"
                 /\ m.subject[k].slug = Queues[q].slug
                 /\ \A j \in (k + 1)..Len(m.subject) :
                        ~(m.subject[j].kind = "tag"
                          /\ m.subject[j].slug = Queues[q].slug)].id

\* C11: for a message that passes the sender and ignore-list guards and whose
\* subject carries a tracking tag of a queue of the importer, the queue is the
\* first importer queue, in iteration order, that a tag names, and the ticket
\* id is the digits of that queue's tag (of its last tag when the subject
\* repeats it), whatever the keywords, the sender and the default queue are; a
\* ticket the call creates is in that queue, and without In-Reply-To match an
\* existing ticket of that id is the one updated
C11_TagFixesQueueAndTicket ==
    [][(/\ IsCall
        /\ PassesGuards(last'.msg, importers[last'.importer])
        /\ TaggedPositions(last'.msg, importers[last'.importer]) # {})
       => LET m == last'.msg
              imp == importers[last'.importer]
              q == FirstTaggedQueue(m, imp)
              c == Classify(Parsed(m), QueuesOf(imp))
          IN /\ c.queue = q
             /\ c.ticket \in TagIds(m, q)
             /\ c.ticket = LastTagId(m, q)
             /\ last'.new => tickets'[last'.ticket].queue = q
             /\ (/\ last'.ret = "Ticket"
                 /\ PreviousFollowUp(followups, m.in_reply_to) = 0
                 /\ TicketExists(tickets, LastTagId(m, q)))
                => (~last'.new /\ last'.ticket = LastTagId(m, q))]_vars

\* C11 witness: tags of both queues, the sales tag first in the subject, from a
\* sender the sales address rule matches; the importer iterates the support
\* queue first, so the new ticket is in the support queue
C11_Witness ==
    /\ last.importer = 1
    /\ last.msg.subject = <<TagTok("sales", 1), TagTok("support", 9)>>
    /\ last.msg.from = OtherAddr
    /\ last.new
    /\ tickets[last.ticket].queue = 1

\* C12: when In-Reply-To is the message id of an existing FollowUp, the new
\* FollowUp and the status transition go to the ticket that owns that
\* FollowUp, no ticket is created, and every other ticket, the one a tracking
\* tag names included, is unchanged
C12_InReplyToOverridesTag ==
    [][(/\ IsCall
        /\ ReachesIngestion(last'.msg, importers[last'.importer])
        /\ PreviousFollowUp(followups, last'.msg.in_reply_to) # 0)
       => LET m == last'.msg
              t == followups[PreviousFollowUp(followups, m.in_reply_to)].ticket
          IN /\ last'.ticket = t
             /\ ~last'.new
             /\ Len(tickets') = Len(tickets)
             /\ Len(followups') = Len(followups) + 1
             /\ followups'[Len(followups')].ticket = t
             /\ followups'[Len(followups')].new_status \in {NoStatus, tickets'[t].status}
             /\ \A u \in 1..Len(tickets) : u # t => tickets'[u] = tickets[u]]_vars

\* C12 witness: a reply tagged for ticket 1 whose In-Reply-To names a FollowUp
\* of the closed ticket 2 reopened ticket 2
C12_Witness ==
    /\ last.msg.in_reply_to = "m2"
    /\ TagMatch("support", last.msg.subject) = 1
    /\ last.ticket = 2
    /\ tickets[2].status = REOPENED_STATUS
    /\ followups[Len(followups)].ticket = 2
    /\ followups[Len(followups)].new_status = REOPENED_STATUS

\* the call wrote a FollowUp to a ticket that existed before it
UpdatesTicket(call) ==
    /\ call.ticket # NoTicket
    /\ ~call.new
    /\ call.ret = "Ticket" \/ call.exc = "BadHeaderError"

\* the sender is no staff member, or the submitter of ticket row t is staff
\* and the sender is another user than the assignee
ExternalUpdate(t, sender_email) ==
    \/ ~is_helpdesk_staff(UserByEmail(sender_email))
    \/ /\ is_helpdesk_staff(UserByEmail(t.submitter_email))
       /\ UserByEmail(sender_email) # t.assigned_to

\* the sender is staff and the submitter of ticket row t is not
StaffReply(t, sender_email) ==
    /\ is_helpdesk_staff(UserByEmail(sender_email))
    /\ ~is_helpdesk_staff(UserByEmail(t.submitter_email))

\* C13: an external update of an existing ticket moves CLOSED, RESOLVED and
\* DUPLICATE to REOPENED and REPLIED to OPEN, and the FollowUp records the
\* new status
C13_ExternalUpdateReopens ==
    [][(/\ IsCall
        /\ UpdatesTicket(last')
        /\ ExternalUpdate(tickets[last'.ticket], Parsed(last'.msg).from))
       => LET t == last'.ticket
              f == followups'[Len(followups')]
          IN /\ tickets[t].status \in ClosedStatuses
                => (tickets'[t].status = REOPENED_STATUS
                    /\ f.new_status = REOPENED_STATUS)
             /\ tickets[t].status = REPLIED_STATUS
                => (tickets'[t].status = OPEN_STATUS
                    /\ f.new_status = OPEN_STATUS)]_vars

\* C13 witness: a staff member who is not the assignee replied to a closed
\* ticket submitted by staff, and the ticket is reopened
C13_Witness ==
    /\ last.msg.from = AdminAddr
    /\ UpdatesTicket(last)
    /\ last.ticket = 1
    /\ tickets[1].submitter_email = StaffAddr
    /\ tickets[1].assigned_to = StaffAddr
    /\ tickets[1].status = REOPENED_STATUS
    /\ followups[Len(followups)].new_status = REOPENED_STATUS

\* C14: a staff reply to an existing ticket whose submitter is not staff moves
\* every status but CLOSED, RESOLVED and DUPLICATE to REPLIED and leaves
\* those three as they are
C14_StaffReplyNeverReopens ==
    [][(/\ IsCall
        /\ UpdatesTicket(last')
        /\ StaffReply(tickets[last'.ticket], Parsed(last'.msg).from))
       => LET t == last'.ticket
          IN tickets'[t].status = IF tickets[t].status \in ClosedStatuses
                                  THEN tickets[t].status
                                  ELSE REPLIED_STATUS]_vars

\* C14 witness: the assignee, a staff member, replied to a ticket of a
\* submitter without account and the FollowUp records REPLIED
C14_Witness ==
    /\ last.msg.from = AdminAddr
    /\ UpdatesTicket(last)
    /\ last.ticket = 1
    /\ tickets[1].submitter_email = OtherAddr
    /\ tickets[1].assigned_to = AdminAddr
    /\ tickets[1].status = REPLIED_STATUS
    /\ followups[Len(followups)].new_status = REPLIED_STATUS

\* the status the transition table gives ticket row t on a message of the sender
ListedStatus(t, sender_email) ==
    IF ExternalUpdate(t, sender_email)
    THEN IF t.status \in ClosedStatuses THEN REOPENED_STATUS
         ELSE IF t.status = REPLIED_STATUS THEN OPEN_STATUS
         ELSE t.status
    ELSE IF t.status \notin ClosedStatuses THEN REPLIED_STATUS
         ELSE t.status

\* C15 as claimed: a call changes ticket statuses only by the transition table:
\* a status that changes is the status of the updated ticket and becomes what
\* the table lists for its updater, an external update leaves OPEN and
\* REOPENED, a created ticket is OPEN and its FollowUp carries no new status
C15_OnlyListedTransitions ==
    [][IsCall =>
          /\ \A u \in 1..Len(tickets) :
                tickets'[u].status # tickets[u].status =>
                    /\ u = last'.ticket
                    /\ UpdatesTicket(last')
                    /\ tickets'[u].status =
                           ListedStatus(tickets[u], Parsed(last'.msg).from)
          /\ (/\ UpdatesTicket(last')
              /\ ExternalUpdate(tickets[last'.ticket], Parsed(last'.msg).from)
              /\ tickets[last'.ticket].status \in {OPEN_STATUS, REOPENED_STATUS})
             => tickets'[last'.ticket].status = tickets[last'.ticket].status
          /\ last'.new =>
                /\ tickets'[last'.ticket].status = OPEN_STATUS
                /\ followups'[Len(followups')].new_status = NoStatus]_vars

\* C17: a message that reaches ingestion and resolves no ticket, with
\* update-only mode off, adds exactly one Ticket, in the resolved queue, OPEN,
\* submitted by the sender address and owned by the queue's default owner if
\* it has one, adds exactly one FollowUp, on that ticket, and changes no
\* existing ticket
C17_UnmatchedCreatesOneTicket ==
    [][(/\ IsCall
        /\ ~update_only
        /\ ReachesIngestion(last'.msg, importers[last'.importer])
        /\ ResolveTicket(tickets, followups, last'.msg,
                         Classify(Parsed(last'.msg),
                                  QueuesOf(importers[last'.importer])).ticket)
               = NoTicket)
       => LET q == Classify(Parsed(last'.msg),
                            QueuesOf(importers[last'.importer])).queue
              n == Len(tickets) + 1
          IN /\ last'.new
             /\ last'.ticket = n
             /\ Len(tickets') = n
             /\ SubSeq(tickets', 1, Len(tickets)) = tickets
             /\ tickets'[n].queue = q
             /\ tickets'[n].status = OPEN_STATUS
             /\ tickets'[n].merged_to = NoTicket
             /\ tickets'[n].submitter_email = Parsed(last'.msg).from
             /\ tickets'[n].assigned_to = Queues[q].default_owner
             /\ Len(followups') = Len(followups) + 1
             /\ SubSeq(followups', 1, Len(followups)) = followups
             /\ followups'[Len(followups')].ticket = n]_vars

\* C17 witness: a tag that names no existing ticket, from a sender the sales
\* address rule matches: the ticket is created in the tag's queue and owned by
\* that queue's default owner
C17_Witness ==
    /\ last.msg.subject = <<TagTok("support", 9)>>
    /\ last.msg.from = OtherAddr
    /\ last.new
    /\ last.ticket = Len(tickets)
    /\ tickets[last.ticket].queue = 1
    /\ tickets[last.ticket].assigned_to = StaffAddr
    /\ tickets[last.ticket].submitter_email = OtherAddr
    /\ followups[Len(followups)].ticket = last.ticket

\* the From header is missing or holds no address
NoSenderAddress(m) == ~(m.from_present /\ ValidEmail(m.from))

\* C19 as claimed: a message whose From header yields no usable address is
\* consumed and leaves the Ticket, FollowUp and TicketCC tables as they are,
\* whatever the ignore rules, the routing rules and the loop check would say
C19_NoSenderAddressConsumed ==
    [][(IsCall /\ NoSenderAddress(last'.msg))
       => (last'.ret = "True" /\ UNCHANGED dbvars)]_vars

\* the message is an auto-reply: Auto-Submitted present and not "no" in any
\* case, X-Auto-Response-Suppress one of DR, AutoReply, All, or a List-Id or
\* List-Unsubscribe header
AutoReplyHeaders(m) ==
    \/ m.auto_submitted \notin {"", "no", "NO"}
    \/ m.x_auto_response_suppress \in {"DR", "AutoReply", "All"}
    \/ m.list_id # ""
    \/ m.list_unsubscribe # ""

\* the To and Cc addresses of m that are valid and not the address of queue q
Subscribed(m, q) ==
    {a \in {(m.to \o m.cc)[k] : k \in 1..Len(m.to \o m.cc)} :
        ValidEmail(a) /\ a # Queues[q].email_address}

\* C20: an auto-reply that reaches ingestion is ingested like any message: the
\* ticket is created or updated, the FollowUp and the CC subscriptions are
\* recorded, and the call returns the ticket, but no notification is
\* dispatched; for a message that is no auto-reply the dispatch is invoked,
\* with the new-ticket or the update templates
C20_AutoReplyIngestedNotNotified ==
    [][(/\ IsCall
        /\ ~update_only
        /\ ReachesIngestion(last'.msg, importers[last'.importer]))
       => LET m == last'.msg
              t == last'.ticket
          IN /\ t # NoTicket
             /\ Len(followups') = Len(followups) + 1
             /\ followups'[Len(followups')].ticket = t
             /\ \A a \in Subscribed(m, tickets'[t].queue) :
                    [ticket |-> t, email |-> a] \in ticketccs'
             /\ AutoReplyHeaders(m)
                => (last'.ret = "Ticket" /\ last'.notify = "none")
             /\ ~AutoReplyHeaders(m)
                => \/ last'.exc = "BadHeaderError"
                   \/ /\ last'.ret = "Ticket"
                      /\ last'.notify = IF last'.new THEN "new" ELSE "updated"]_vars

\* C20 witness: a message with a List-Id header and a Cc opened a ticket; the
\* Cc address is subscribed and nothing was dispatched, although dispatching
\* for this message would have raised
C20_Witness ==
    /\ last.msg.list_id # ""
    /\ last.msg.fault = "notify"
    /\ last.new
    /\ last.ret = "Ticket"
    /\ last.notify = "none"
    /\ followups[Len(followups)].ticket = last.ticket
    /\ [ticket |-> last.ticket, email |-> OtherAddr] \in ticketccs

\* C29 as claimed: an update by a staff user who is the assignee of a ticket
\* whose submitter is staff is a staff reply: OPEN, REOPENED and REPLIED end
\* in REPLIED, and CLOSED, RESOLVED and DUPLICATE stay as they are
C29_AssigneeReplyIsStaffReply ==
    [][(/\ IsCall
        /\ UpdatesTicket(last')
        /\ is_helpdesk_staff(UserByEmail(tickets[last'.ticket].submitter_email))
        /\ is_helpdesk_staff(UserByEmail(Parsed(last'.msg).from))
        /\ UserByEmail(Parsed(last'.msg).from) = tickets[last'.ticket].assigned_to)
       => LET t == tickets[last'.ticket]
          IN tickets'[last'.ticket].status =
                IF t.status \in {OPEN_STATUS, REOPENED_STATUS, REPLIED_STATUS}
                THEN REPLIED_STATUS ELSE t.status]_vars

\* positions, in the importer's queue list, of the queues with a keyword
\* found in the subject
KeywordPositions(m, importer) ==
    {i \in 1..Len(importer.queue_set) :
        \E k \in 1..Len(Queues[importer.queue_set[i]].match_on) :
            KeywordMatch(Queues[importer.queue_set[i]].match_on[k],
                         StripSubject(m.subject))}

\* positions, in the importer's queue list, of the queues with an address
\* rule that is, letter case aside, a substring of the sender's address
AddressPositions(m, importer) ==
    {i \in 1..Len(importer.queue_set) :
        \E k \in 1..Len(Queues[importer.queue_set[i]].match_on_addresses) :
            IsSubstring(Lower(Queues[importer.queue_set[i]].match_on_addresses[k]),
                        Lower(Parsed(m).from))}

\* the queue at the least of a set of positions of the importer's queue list
FirstQueueAt(positions, importer) ==
    importer.queue_set[CHOOSE i \in positions : \A j \in positions : i <= j]

\* C30 as claimed: the ticket opened for a message is in the queue of the
\* tracking tag if the subject has one, else in the first queue with a keyword
\* of the subject if there is one, else in the first queue, in iteration
\* order, with an address rule matching the sender, else in the importer's
\* default queue
C30_FirstAddressMatchWins ==
    [][(/\ IsCall
        /\ PassesGuards(last'.msg, importers[last'.importer])
        /\ last'.new)
       => LET m == last'.msg
              imp == importers[last'.importer]
              tagged == TaggedPositions(m, imp)
              keyword == KeywordPositions(m, imp)
              address == AddressPositions(m, imp)
          IN tickets'[last'.ticket].queue =
                IF tagged # {} THEN FirstQueueAt(tagged, imp)
                ELSE IF keyword # {} THEN FirstQueueAt(keyword, imp)
                ELSE IF address # {} THEN FirstQueueAt(address, imp)
                ELSE imp.default_queue]_vars

\* positions, in the importer's queue list, of the queues one of whose
\* keywords is, letter case aside, a word of the subject
WholeWordPositions(m, importer) ==
    {i \in 1..Len(importer.queue_set) :
        \E k \in 1..Len(Queues[importer.queue_set[i]].match_on) :
            \E j \in 1..Len(m.subject) :
                /\ m.subject[j].kind = "word"
                /\ LowerTok(m.subject[j].w) =
                       LowerTok(Queues[importer.queue_set[i]].match_on[k])}

\* C31: when a tracking tag of a queue of the importer is in the subject the
\* keywords decide nothing; otherwise, when a keyword of some queue is a word
\* of the subject, the queue resolved, and the queue of the ticket opened, is
\* the first queue in iteration order with such a keyword, whatever later
\* queues, the address rules and the default queue are
C31_FirstKeywordQueueWins ==
    [][(/\ IsCall
        /\ PassesGuards(last'.msg, importers[last'.importer]))
       => LET m == last'.msg
              imp == importers[last'.importer]
              c == Classify(Parsed(m), QueuesOf(imp))
              words == WholeWordPositions(m, imp)
          IN /\ TaggedPositions(m, imp) # {}
                => c.queue = FirstTaggedQueue(m, imp)
             /\ TaggedPositions(m, imp) = {} /\ words # {}
                => /\ c.queue = FirstQueueAt(words, imp)
                   /\ last'.new
                      => tickets'[last'.ticket].queue = FirstQueueAt(words, imp)]_vars

\* C31 witness: the subject holds the keyword of the sales queue and the
\* sender matches the address rule of the billing queue; the ticket is opened
\* in the sales queue, not in the billing queue or the default queue
C31_Witness ==
    /\ last.importer = 4
    /\ last.msg.from = OtherAddr
    /\ TaggedPositions(last.msg, importers[4]) = {}
    /\ WholeWordPositions(last.msg, importers[4]) = {2}
    /\ AddressPositions(last.msg, importers[4]) = {2, 3}
    /\ last.new
    /\ tickets[last.ticket].queue = 2

\* the To and Cc addresses of m
Recipients(m) == {(m.to \o m.cc)[k] : k \in 1..Len(m.to \o m.cc)}

\* C27 as claimed: after a message was ingested, no To or Cc address equal to
\* the address of the ticket's queue in any letter case is subscribed to the
\* ticket, every other valid address is, and an invalid one is not, while the
\* Ticket and its FollowUp exist
C27_QueueAddressNeverSubscribed ==
    [][(/\ IsCall
        /\ ReachesIngestion(last'.msg, importers[last'.importer]))
       => LET m == last'.msg
              t == last'.ticket
          IN /\ t # NoTicket
             /\ Len(followups') = Len(followups) + 1
             /\ followups'[Len(followups')].ticket = t
             /\ \A a \in Recipients(m) :
                    LET own == Lower(a) =
                                 Lower(Queues[tickets'[t].queue].email_address)
                        row == [ticket |-> t, email |-> a]
                    IN /\ own => row \notin ticketccs'
                       /\ ~own /\ ValidEmail(a) => row \in ticketccs'
                       /\ ~ValidEmail(a) => row \notin ticketccs']_vars

\* C39: after a call of object_from_message every ticket has one of the six
\* statuses; a ticket whose status the call changed is now REOPENED, OPEN or
\* REPLIED, never RESOLVED, CLOSED or DUPLICATE; and the new-status marker of
\* a FollowUp the call created is empty or the status its ticket has after
\* the call.  Checked under Spec
C39_IngestionWritesActiveStatusesOnly ==
    [][IsCall
       => /\ \A t \in 1..Len(tickets') : tickets'[t].status \in Statuses
          /\ \A t \in 1..Len(tickets) :
                tickets'[t].status # tickets[t].status =>
                   tickets'[t].status \in
                      {REOPENED_STATUS, OPEN_STATUS, REPLIED_STATUS}
          /\ \A i \in (Len(followups) + 1)..Len(followups') :
                followups'[i].new_status # NoStatus =>
                   followups'[i].new_status =
                      tickets'[followups'[i].ticket].status]_vars

\* C39 witness: a staff reply moved a ticket to REPLIED and the next message,
\* from a user, moved it to OPEN; each FollowUp carries the status its
\* message left
C39_Witness ==
    /\ run.pc = "ingest"
    /\ Len(followups) = Len(InitFollowUps) + 2
    /\ followups[Len(followups) - 1].new_status = REPLIED_STATUS
    /\ followups[Len(followups)].new_status = OPEN_STATUS
    /\ followups[Len(followups)].ticket = followups[Len(followups) - 1].ticket
    /\ tickets[followups[Len(followups)].ticket].status = OPEN_STATUS

----------------------------------------------------------------------------
(* Properties of the forwarding-loop branch, checked under SpecGuard *)

\* the call found a forwarding loop: its message passed the sender and
\* ignore-list guards and carries the loop-marker header or comes from the
\* address of the resolved queue
LoopDetected(call) ==
    /\ PassesGuards(call.msg, importers[call.importer])
    /\ IsLoopCall(call)

\* the forwarded addresses of a loop message
Forwarded(m) ==
    LET list == IF m.delivered.present THEN m.delivered.value ELSE m.to
    IN {list[k] : k \in 1..Len(list)}

\* C32: a call that finds a forwarding loop removes, when the tracking tag of
\* the subject names an existing ticket, the TicketCC rows of that ticket
\* whose address is, letter case aside, a forwarded address (the addresses of
\* the loop-marker header, or the To addresses when there is no such header),
\* and no other row; without tag, or with a tag that names no ticket, the
\* TicketCC table stays as it is
C32_LoopRemovesOnlyForwardedCCs ==
    [][(IsCall /\ LoopDetected(last'))
       => LET m == last'.msg
              imp == importers[last'.importer]
              tagged == TaggedPositions(m, imp) # {}
              id == LastTagId(m, FirstTaggedQueue(m, imp))
          IN IF tagged /\ id \in 1..Len(tickets)
             THEN ticketccs' =
                     {cc \in ticketccs :
                         ~(/\ cc.ticket = id
                           /\ \E a \in Forwarded(m) : Lower(cc.email) = Lower(a))}
             ELSE ticketccs' = ticketccs]_vars

\* C32 witness: a loop message tagged for ticket 1 named another address in
\* its loop-marker header: that address is no longer subscribed to ticket 1,
\* is still subscribed to ticket 2, and the other subscriber of ticket 1 stays
C32_Witness ==
    /\ last.ret = "True"
    /\ last.msg.delivered.present
    /\ last.msg.delivered.value = <<OtherAddr>>
    /\ TagMatch("support", last.msg.subject) = 1
    /\ [ticket |-> 1, email |-> OtherAddr] \notin ticketccs
    /\ [ticket |-> 2, email |-> OtherAddr] \in ticketccs
    /\ [ticket |-> 1, email |-> SupportAddrUC] \in ticketccs

----------------------------------------------------------------------------
(* Properties of replayed and successive messages, checked under Spec *)

C18_FollowUpsOnlyGrow ==
    [][IsCall =>
          /\ SubSeq(followups', 1, Len(followups)) = followups
          /\ IF last'.ticket # NoTicket
             THEN /\ Len(followups') = Len(followups) + 1
                  /\ followups'[Len(followups')].ticket = last'.ticket
                  /\ followups'[Len(followups')].public
                  /\ followups'[Len(followups')].message_id = last'.msg.message_id
             ELSE followups' = followups]_vars

\* C18 witness: two different messages were ingested into ticket 1; the
\* FollowUp of the first still records the status change it made
C18_Witness ==
    /\ ~last.replay
    /\ last.ticket = 1
    /\ Len(followups) = Len(InitFollowUps) + 2
    /\ followups[Len(followups)].ticket = 1
    /\ followups[Len(followups) - 1].ticket = 1
    /\ followups[Len(followups) - 1].new_status = REOPENED_STATUS
    /\ followups[Len(followups)].new_status = REPLIED_STATUS

----------------------------------------------------------------------------
(* SpecPoll: process_email called again and again for one enabled importer. *)
(* Time passes between the calls; a call skips the importer while it is not *)
(* due, and otherwise opens a session (POP3, IMAP with STARTTLS and login,  *)
(* IMAP with XOAUTH2), lists the mailbox, hands each message to             *)
(* object_from_message, acknowledges it and closes the session.  The        *)
(* mailbox keeps its flags from one call to the next.                       *)

\* bound on the clock
MaxNow == 33

\* bound on the sessions opened
MaxPolls == 2

\* line 110: timedelta(minutes=30)
LookBack == 30

\* line 109: email_box_last_check is None
NoTime == -1

\* line 194: response['expires_in'], in minutes
ExpiresIn == 60

\* the clock when the first call is made
StartTime == LookBack + 1

\* importer rows: the transport, the retention mode, the polling interval,
\* the stored last check and, for the OAuth2 path, the token and its expiry
PollImporters ==
    LET rows == { [Importer1 EXCEPT !.email_box_type = "pop3"],
                  Importer1,
                  [Importer1 EXCEPT !.keep_mail = TRUE],
                  [Importer1 EXCEPT !.gmail = TRUE],
                  [Importer1 EXCEPT !.gmail = TRUE, !.keep_mail = TRUE] }
    IN { r @@ [email_box_last_check |-> lc, email_box_interval |-> iv,
               access_token |-> 0, token_expiration |-> te] :
         r \in rows, lc \in {NoTime, StartTime - 1}, iv \in {0, 1},
         te \in {StartTime - 1, StartTime + ExpiresIn} }

\* messages of the mailbox: one that opens a ticket, one retained by an
\* ignore rule, one whose notification is refused, one whose body fails to
\* decode
PollMessages ==
    { BaseMsg,
      [BaseMsg EXCEPT !.from = SpamAddr, !.message_id = "m6"],
      [BaseMsg EXCEPT !.fault = "notify", !.message_id = "m4"],
      [BaseMsg EXCEPT !.fault = "body", !.message_id = "m5"] }

\* a message of the mailbox: the flags the server holds for it, whether it is
\* still in the mailbox, the session that listed it last and the session that
\* fetched it last with the acknowledgment outcome
Stored(m) == [msg |-> m, flags |-> {}, present |-> TRUE, listed |-> 0,
              polled |-> 0, outcome |-> "none"]

PollMailboxes == { <<Stored(a), Stored(b)>> : a, b \in PollMessages }

PollInit ==
    /\ tickets = <<GuardTickets[1]>>
    /\ followups = <<InitFollowUps[1]>>
    /\ ticketccs = {}
    /\ ignore_rules = <<IgnoreRule(SpamAddr, TRUE, {})>>
    /\ update_only = FALSE
    /\ last = NoLast
    /\ \E i \in PollImporters : importers = <<i>>
    /\ mailbox \in PollMailboxes
    /\ run = [pc |-> "idle", now |-> StartTime, polls |-> 0, event |-> "none",
              state |-> "LOGOUT", last_check |-> NoTime, opened |-> NoTime,
              ended |-> "none", done_opened |-> NoTime,
              refreshed |-> FALSE, auth_token |-> NoTime, starttls |-> "none",
              login |-> "none", queue |-> <<>>, pos |-> 1]
    /\ workers = <<>>

\* the importer row as stored
Stored1 == importers[1]

\* lines 109-114: the last check the call works with, and whether the
\* importer is due
EffectiveLastCheck(importer, now) ==
    IF importer.email_box_last_check = NoTime THEN now - LookBack
    ELSE importer.email_box_last_check

\* mutant of Due: an importer is polled at its next-poll time already
Due_NotLater(importer, now) ==
    EffectiveLastCheck(importer, now) + importer.email_box_interval <= now

Due(importer, now) ==
    EffectiveLastCheck(importer, now) + importer.email_box_interval < now

\* time passes between two calls, and while a batch is processed
PollTick ==
    /\ run.pc \in {"idle", "messages"}
    /\ run.now < MaxNow
    /\ run' = [run EXCEPT !.now = @ + 1, !.event = "tick"]
    /\ UNCHANGED <<dbvars, ignore_rules, update_only, last, importers, mailbox,
                   workers>>

\* lines 113-114 with DEBUGGING False: the importer is not due, the call
\* returns without process_importer
PollSkip ==
    /\ run.pc = "idle"
    /\ ~Due(Stored1, run.now)
    /\ run' = [run EXCEPT !.event = "skipped"]
    /\ UNCHANGED <<dbvars, ignore_rules, update_only, last, importers, mailbox,
                   workers>>

\* lines 109-115 and 345-350: the importer is due, process_importer builds
\* the server object and enters the sync function of the transport
PollOpen ==
    /\ run.pc = "idle"
    /\ run.polls < MaxPolls
    /\ Due(Stored1, run.now)
    /\ run' = [run EXCEPT
                 !.pc = IF Stored1.email_box_type = "imap" /\ Stored1.gmail
                        THEN "token" ELSE "starttls",
                 !.polls = @ + 1, !.event = "opened", !.state = "NONAUTH",
                 !.last_check = EffectiveLastCheck(Stored1, run.now),
                 !.opened = run.now, !.ended = "none", !.refreshed = FALSE,
                 !.auth_token = NoTime, !.starttls = "none", !.login = "none",
                 !.queue = <<>>, !.pos = 1]
    /\ UNCHANGED <<dbvars, ignore_rules, update_only, last, importers, mailbox,
                   workers>>

\* sys.exit() or an exception leaves process_email: the session is dropped
Leave(event) ==
    run' = [run EXCEPT !.pc = "idle", !.event = event, !.state = "LOGOUT",
                       !.ended = event,
                       !.done_opened = IF event = "completed" THEN run.opened
                                       ELSE @]

\* line 189, token not expired: the stored token is used as it is
TokenUnexpired ==
    /\ run.pc = "token"
    /\ ~(Stored1.token_expiration < run.now)
    /\ run' = [run EXCEPT !.pc = "auth", !.event = "token_kept"]
    /\ UNCHANGED <<dbvars, ignore_rules, update_only, last, importers, mailbox,
                   workers>>

\* mutant of SavedAfterRefresh: the old token is kept
SavedAfterRefresh_OldToken(importer, now, last_check) ==
    [importer EXCEPT !.token_expiration = now + ExpiresIn,
                     !.email_box_last_check = last_check]

\* lines 193-195: the row written by importer.save() after a refresh; save()
\* writes every field of the instance, the last check of line 110 included
SavedAfterRefresh(importer, now, last_check) ==
    [importer EXCEPT !.access_token = @ + 1,
                     !.token_expiration = now + ExpiresIn,
                     !.email_box_last_check = last_check]

\* lines 189-195: the token has expired and refresh_tokens answers with a new
\* access token
TokenRefreshed ==
    /\ run.pc = "token"
    /\ Stored1.token_expiration < run.now
    /\ importers' = <<SavedAfterRefresh(Stored1, run.now, run.last_check)>>
    /\ run' = [run EXCEPT !.pc = "auth", !.event = "refreshed",
                          !.refreshed = TRUE]
    /\ UNCHANGED <<dbvars, ignore_rules, update_only, last, mailbox, workers>>

\* lines 189-198: the token has expired and the answer of refresh_tokens
\* holds no access token: sys.exit()
TokenRefreshFails ==
    /\ run.pc = "token"
    /\ Stored1.token_expiration < run.now
    /\ Leave("refresh_failed")
    /\ UNCHANGED <<dbvars, ignore_rules, update_only, last, importers, mailbox,
                   workers>>

\* the state of the connection after email_utils.imap_authentication: the
\* folder is selected when XOAUTH2 is accepted, otherwise nobody is logged in
imap_authentication(state, ok) == IF ok THEN "SELECTED" ELSE state

\* lines 202-213: the authentication string is built from the stored token;
\* a refused or failing authentication is logged and imap_sync goes on
Authenticate ==
    /\ run.pc = "auth"
    /\ \E ok \in BOOLEAN :
          run' = [run EXCEPT !.pc = "search",
                             !.event = IF ok THEN "authenticated"
                                       ELSE "auth_failed",
                             !.auth_token = Stored1.access_token,
                             !.login = IF ok THEN "ok" ELSE "failed",
                             !.state = imap_authentication(run.state, ok)]
    /\ UNCHANGED <<dbvars, ignore_rules, update_only, last, importers, mailbox,
                   workers>>

\* lines 139-143 and 216-223: POP3 goes on to user/pass_ after the try
\* statement; IMAP logs in in the else clause of the try statement, that is
\* only when starttls() raised nothing
AfterStartTLS(importer, ok) ==
    IF importer.email_box_type = "pop3" \/ ok THEN "login" ELSE "search"

\* lines 139-142 and 216-219: STARTTLS is tried, a failure is logged as a
\* warning
StartTLS ==
    /\ run.pc = "starttls"
    /\ \E ok \in BOOLEAN :
          run' = [run EXCEPT !.pc = AfterStartTLS(Stored1, ok),
                             !.event = "starttls",
                             !.starttls = IF ok THEN "ok" ELSE "failed"]
    /\ UNCHANGED <<dbvars, ignore_rules, update_only, last, importers, mailbox,
                   workers>>

\* lines 143-144 and 221-223: user name and password are accepted, and IMAP
\* selects the folder
Login ==
    /\ run.pc = "login"
    /\ run' = [run EXCEPT !.pc = "search", !.event = "logged_in",
                          !.login = "ok",
                          !.state = IF Stored1.email_box_type = "pop3"
                                    THEN "TRANSACTION" ELSE "SELECTED"]
    /\ UNCHANGED <<dbvars, ignore_rules, update_only, last, importers, mailbox,
                   workers>>

\* lines 143-144 and 221-237: the login fails.  IMAP4.abort and ssl.SSLError
\* are answered with logout and sys.exit(); the IMAP4.error of a refused
\* password and the error_proto of POP3 leave process_email as exceptions
LoginFails ==
    /\ run.pc = "login"
    /\ \E exc \in IF Stored1.email_box_type = "pop3" THEN {"error_proto"}
                  ELSE {"IMAP4.abort", "SSLError", "IMAP4.error"} :
          run' = [run EXCEPT !.pc = "idle", !.state = "LOGOUT",
                             !.login = "failed",
                             !.ended = IF exc \in {"IMAP4.abort", "SSLError"}
                                       THEN "exited" ELSE "raised",
                             !.event = IF exc \in {"IMAP4.abort", "SSLError"}
                                       THEN "exited" ELSE "raised"]
    /\ UNCHANGED <<dbvars, ignore_rules, update_only, last, importers, mailbox,
                   workers>>

\* mutant of Legal: every command is accepted in every state
Legal_Always(state) == TRUE

\* imaplib.Commands: SEARCH, FETCH, UID, STORE, EXPUNGE and CLOSE are legal in
\* the SELECTED state only; in another state the call raises IMAP4.error
\* before anything is sent
Legal(state) == state = "SELECTED"

\* mutant of ExcludedFlag: the search terms of the two modes are exchanged
ExcludedFlag_Swapped(importer) ==
    IF importer.keep_mail THEN "Deleted" ELSE "Answered"

\* lines 240-243: the flag whose bearers the search leaves out
ExcludedFlag(importer) ==
    IF importer.keep_mail THEN "Answered" ELSE "Deleted"

RECURSIVE SelectIdx(_, _, _)
\* the numbers i..Len(mb) of the messages in the mailbox without flag
SelectIdx(mb, i, flag) ==
    IF i > Len(mb) THEN <<>>
    ELSE IF mb[i].present /\ flag \notin mb[i].flags
         THEN <<i>> \o SelectIdx(mb, i + 1, flag)
         ELSE SelectIdx(mb, i + 1, flag)

\* lines 146 and 240-245: the message numbers the server lists
ListOf(importer, mb) ==
    IF importer.email_box_type = "pop3" THEN SelectIdx(mb, 1, "none")
    ELSE SelectIdx(mb, 1, ExcludedFlag(importer))

MarkListed(mb, queue, poll) ==
    [k \in 1..Len(mb) |->
        IF \E j \in 1..Len(queue) : queue[j] = k
        THEN [mb[k] EXCEPT !.listed = poll] ELSE mb[k]]

\* lines 146-147 and 239-246: the mailbox is listed
PollSearch ==
    /\ run.pc = "search"
    /\ Stored1.email_box_type = "imap" => Legal(run.state)
    /\ \E queue \in {ListOf(Stored1, mailbox)} :
          /\ mailbox' = MarkListed(mailbox, queue, run.polls)
          /\ run' = [run EXCEPT !.pc = "messages", !.event = "listed",
                                !.queue = queue, !.pos = 1]
    /\ UNCHANGED <<dbvars, ignore_rules, update_only, last, importers, workers>>

\* lines 239-243 and 278-282: server.search raises IMAP4.error, because the
\* connection is not in the SELECTED state or because the server answers
\* BAD; the error is logged and imap_sync goes on to line 284
PollSearchError ==
    /\ run.pc = "search"
    /\ Stored1.email_box_type = "imap"
    /\ run' = [run EXCEPT !.pc = "close", !.event = "search_error"]
    /\ UNCHANGED <<dbvars, ignore_rules, update_only, last, importers, mailbox,
                   workers>>

PollAtMessage == run.pc = "messages" /\ run.pos <= Len(run.queue)

\* lines 169-174 and 265-277: the flag or mark the acknowledgment leaves
Acknowledged(e, importer, ticket, poll) ==
    [e EXCEPT !.flags = IF Truthy(ticket) THEN @ \cup {AckOf(importer)} ELSE @,
              !.polled = poll,
              !.outcome = IF Truthy(ticket) THEN "Consume" ELSE "Retain"]

\* lines 149-174 and 248-277: the message is fetched, handed to
\* object_from_message and acknowledged if the value returned is true
PollProcessMessage ==
    /\ PollAtMessage
    /\ \E k \in {run.queue[run.pos]} :
          /\ Ingest(mailbox[k].msg, 1)
          /\ last'.exc # "none" => Caught(Stored1, last'.exc)
          /\ \E ticket \in {IF last'.exc = "none" THEN last'.ret ELSE "None"} :
                mailbox' = [mailbox EXCEPT
                              ![k] = Acknowledged(@, Stored1, ticket, run.polls)]
    /\ run' = [run EXCEPT !.pos = @ + 1, !.event = "message"]
    /\ UNCHANGED <<ignore_rules, update_only, importers, workers>>

\* a POP3 session dropped without QUIT never enters the UPDATE state: the
\* messages marked by DELE stay in the mailbox
Dropped(mb, importer) ==
    IF importer.email_box_type = "pop3"
    THEN [k \in 1..Len(mb) |-> [mb[k] EXCEPT !.flags = @ \ {"dele"}]]
    ELSE mb

\* the same lines when object_from_message raises an exception the transport
\* does not catch: it leaves the sync function and process_email
PollMessageRaises ==
    /\ PollAtMessage
    /\ \E k \in {run.queue[run.pos]} :
          /\ Ingest(mailbox[k].msg, 1)
          /\ last'.exc # "none"
          /\ ~Caught(Stored1, last'.exc)
          /\ mailbox' = Dropped([mailbox EXCEPT ![k].polled = run.polls,
                                                ![k].outcome = "Retain"],
                                Stored1)
    /\ Leave("raised")
    /\ UNCHANGED <<ignore_rules, update_only, importers, workers>>

\* lines 176 and 284: QUIT and EXPUNGE remove the messages marked for deletion
Expunged(mb) ==
    [k \in 1..Len(mb) |->
        IF mb[k].flags \cap {"dele", "Deleted"} # {}
        THEN [mb[k] EXCEPT !.present = FALSE] ELSE mb[k]]

PollAtClose ==
    \/ run.pc = "close"
    \/ run.pc = "messages" /\ run.pos > Len(run.queue)

\* lines 176, 284-286 and 116-117: the session is closed, process_importer
\* returns, and process_email stores the current time as last check
PollClose ==
    /\ PollAtClose
    /\ Stored1.email_box_type = "imap" => Legal(run.state)
    /\ mailbox' = Expunged(mailbox)
    /\ importers' = <<[Stored1 EXCEPT !.email_box_last_check = run.now]>>
    /\ Leave("completed")
    /\ UNCHANGED <<dbvars, ignore_rules, update_only, last, workers>>

\* line 284 on a connection that is not in the SELECTED state: expunge
\* raises IMAP4.error outside every try statement
PollCloseRaises ==
    /\ PollAtClose
    /\ Stored1.email_box_type = "imap"
    /\ ~Legal(run.state)
    /\ Leave("raised")
    /\ UNCHANGED <<dbvars, ignore_rules, update_only, last, importers, mailbox,
                   workers>>

PollNext ==
    \/ PollTick
    \/ PollSkip
    \/ PollOpen
    \/ TokenUnexpired
    \/ TokenRefreshed
    \/ TokenRefreshFails
    \/ Authenticate
    \/ StartTLS
    \/ Login
    \/ LoginFails
    \/ PollSearch
    \/ PollSearchError
    \/ PollProcessMessage
    \/ PollMessageRaises
    \/ PollClose
    \/ PollCloseRaises

SpecPoll == PollInit /\ [][PollNext]_vars

----------------------------------------------------------------------------
(* Properties of the polls, checked under SpecPoll *)

\* C21: once the authentication of a session has failed (login refused or
\* broken by an SSL error, XOAUTH2 refused or failing), no step of that call
\* lists, fetches, ingests or acknowledges a message: mailbox and database
\* stay as they are
C21_AuthFailureTouchesNothing ==
    [][run'.login = "failed" => UNCHANGED <<dbvars, mailbox>>]_vars

\* C21 witness: XOAUTH2 was refused, imap_sync went on to the search, and the
\* mailbox holds a message no session has listed
C21_Witness ==
    /\ Stored1.gmail
    /\ run.login = "failed"
    /\ run.event = "search_error"
    /\ \E k \in 1..Len(mailbox) : mailbox[k].present /\ mailbox[k].listed = 0

\* a step of process_email that opens a session
Opens == run'.polls > run.polls

\* lines 109-114: last check plus interval is not earlier than the clock
NotYetDue ==
    (IF Stored1.email_box_last_check = NoTime THEN run.now - LookBack
     ELSE Stored1.email_box_last_check) + Stored1.email_box_interval >= run.now

\* C22 as claimed: no session is opened and no message is touched for an
\* importer that is not yet due, and the sessions of two successive polls of
\* the importer are opened at least one interval apart
C22_PollsOneIntervalApart ==
    [][/\ run.pc = "idle" /\ NotYetDue =>
             ~Opens /\ UNCHANGED <<dbvars, mailbox, importers>>
       /\ Opens /\ run.opened # NoTime =>
             run'.opened - run.opened >= Stored1.email_box_interval]_vars

\* C22, amended: no session is opened and no message is touched for an
\* importer that is not yet due, and a session is opened at least one
\* interval after the session of every earlier poll that ran to completion
C22_PollsOneIntervalAfterCompleted ==
    [][/\ run.pc = "idle" /\ NotYetDue =>
             ~Opens /\ UNCHANGED <<dbvars, mailbox, importers>>
       /\ Opens /\ run.done_opened # NoTime =>
             run'.opened - run.done_opened >= Stored1.email_box_interval]_vars

\* C22 witness: with an interval of one minute a session has been opened
\* after a poll that ran to completion, and the call before it was skipped
C22_Witness ==
    /\ Stored1.email_box_interval > 0
    /\ run.done_opened # NoTime
    /\ run.opened > run.done_opened
    /\ run.pc # "idle"

\* the step in which process_importer returns and lines 116-117 are reached
Completes == run.pc # "idle" /\ run'.ended = "completed"

\* C23 as claimed: the stored last check changes in the step that completes a
\* batch and in no other step (not when the importer is skipped, not in a
\* poll that is aborted), it is then the current time, and it never decreases
C23_LastCheckSetOnCompletionOnly ==
    [][/\ Completes => importers'[1].email_box_last_check = run.now
       /\ importers'[1].email_box_last_check # Stored1.email_box_last_check
             => Completes
       /\ importers'[1].email_box_last_check >= Stored1.email_box_last_check]_vars

\* the step in which a session lists the mailbox
Lists == run.pc = "search" /\ run'.pc = "messages"

\* C24: on IMAP a consumed message carries the Answered flag and is still in
\* the mailbox in keep mode, carries the Deleted flag otherwise, and no later
\* session lists it; a retained message carries no flag, stays in the mailbox
\* and is listed by every later session that lists the mailbox
C24_ImapFlagsDecideListing ==
    [][Stored1.email_box_type = "imap" =>
          \A k \in 1..Len(mailbox) :
             /\ mailbox'[k].outcome = "Consume" =>
                   IF Stored1.keep_mail
                   THEN "Answered" \in mailbox'[k].flags /\ mailbox'[k].present
                   ELSE "Deleted" \in mailbox'[k].flags
             /\ mailbox'[k].outcome = "Retain" =>
                   mailbox'[k].flags = {} /\ mailbox'[k].present
             /\ Lists /\ mailbox[k].outcome = "Consume" =>
                   mailbox'[k].listed = mailbox[k].listed
             /\ Lists /\ mailbox[k].outcome = "Retain" =>
                   mailbox'[k].listed = run.polls]_vars

\* C24 witness: the second session of a keep-mode importer has listed the
\* mailbox: the message the first session retained is listed again, the one
\* it consumed is flagged Answered and is not
C24_Witness ==
    /\ Stored1.email_box_type = "imap"
    /\ Stored1.keep_mail
    /\ run.polls = 2
    /\ run.pc = "messages"
    /\ \E k, j \in 1..Len(mailbox) :
          /\ mailbox[k].outcome = "Consume"
          /\ mailbox[k].flags = {"Answered"}
          /\ mailbox[k].listed = 1
          /\ mailbox[j].outcome = "Retain"
          /\ mailbox[j].polled = 1
          /\ mailbox[j].listed = 2

\* C25 as claimed: a session whose STARTTLS failed goes on to log in; past
\* the login step it is logged in (and on IMAP the folder is selected)
C25_StartTLSFailureStillLogsIn ==
    run.starttls = "failed" /\ run.pc # "idle" =>
        \/ run.pc = "login"
        \/ run.login = "ok" /\ run.state \in {"TRANSACTION", "SELECTED"}

\* C26: on the OAuth2 path a refresh happens only for an expired token; a
\* successful refresh replaces the stored token and its expiry; a failed one
\* ends the call with no authentication and no message touched; an unexpired
\* token is left as it is; and the authentication that follows uses the
\* stored token, the new one after a refresh
C26_ExpiredTokenRefreshedBeforeAuth ==
    [][/\ run.pc = "token" /\ Stored1.token_expiration < run.now =>
             \/ /\ run'.refreshed
                /\ run'.pc = "auth"
                /\ importers'[1].access_token # Stored1.access_token
                /\ importers'[1].token_expiration = run.now + ExpiresIn
             \/ /\ run'.pc = "idle"
                /\ run'.auth_token = NoTime
                /\ UNCHANGED <<dbvars, mailbox, importers>>
       /\ run.pc = "token" /\ ~(Stored1.token_expiration < run.now) =>
             /\ ~run'.refreshed
             /\ run'.pc = "auth"
             /\ UNCHANGED importers
       /\ run.pc = "auth" =>
             /\ run'.auth_token = Stored1.access_token
             /\ run.refreshed => Stored1.access_token # 0]_vars

\* C26 witness: the expired token was refreshed and the session authenticated
\* with the new token lists the mailbox
C26_Witness ==
    /\ run.refreshed
    /\ run.auth_token = 1
    /\ Stored1.access_token = 1
    /\ run.login = "ok"
    /\ run.pc = "messages"

\* C34 as claimed: a call of object_from_message after which the message is
\* left un-acknowledged in the mailbox has written no Ticket, FollowUp or
\* TicketCC row
C34_RetainedMessageCommitsNothing ==
    [][(IsCall /\ PollAtMessage
        /\ mailbox'[run.queue[run.pos]].outcome = "Retain")
       => UNCHANGED dbvars]_vars

\* C35 as claimed: a message that a poll ingested and acknowledged as
\* consumed is not handed to object_from_message again
C35_ConsumedMessageNotIngestedAgain ==
    [][(IsCall /\ PollAtMessage)
       => mailbox[run.queue[run.pos]].outcome # "Consume"]_vars

----------------------------------------------------------------------------
(* SpecSched: process_email is called again and again while time passes.    *)
(* The importer was checked long ago or never, and its interval is zero or  *)
(* longer than the look-back of line 110.                                   *)

\* an importer last checked at the start of time
LongAgo == 0

SchedImporters ==
    LET rows == { [Importer1 EXCEPT !.email_box_type = "pop3"],
                  Importer1,
                  [Importer1 EXCEPT !.keep_mail = TRUE],
                  [Importer1 EXCEPT !.gmail = TRUE] }
    IN { r @@ [email_box_last_check |-> lc, email_box_interval |-> iv,
               access_token |-> 0, token_expiration |-> te] :
         r \in rows, lc \in {NoTime, LongAgo}, iv \in {0, LookBack + 1},
         te \in {StartTime - 1, StartTime + ExpiresIn} }

SchedMailboxes ==
    { <<Stored(BaseMsg), Stored([BaseMsg EXCEPT !.fault = "body", !.message_id = "m5"])>>,
      <<Stored([BaseMsg EXCEPT !.fault = "notify", !.message_id = "m4"]),
        Stored([BaseMsg EXCEPT !.from = SpamAddr, !.message_id = "m6"])>> }

SchedInit ==
    /\ tickets = <<GuardTickets[1]>>
    /\ followups = <<InitFollowUps[1]>>
    /\ ticketccs = {}
    /\ ignore_rules = <<IgnoreRule(SpamAddr, TRUE, {})>>
    /\ update_only = FALSE
    /\ last = NoLast
    /\ \E i \in SchedImporters : importers = <<i>>
    /\ mailbox \in SchedMailboxes
    /\ run = [pc |-> "idle", now |-> StartTime, polls |-> 0, event |-> "none",
              state |-> "LOGOUT", last_check |-> NoTime, opened |-> NoTime,
              ended |-> "none", done_opened |-> NoTime,
              refreshed |-> FALSE, auth_token |-> NoTime, starttls |-> "none",
              login |-> "none", queue |-> <<>>, pos |-> 1]
    /\ workers = <<>>

\* time advances, process_email is called again after every return, and a
\* call that has started goes on to its next step
SpecSched ==
    /\ SchedInit
    /\ [][PollNext]_vars
    /\ WF_vars(PollTick)
    /\ WF_vars(PollOpen)
    /\ WF_vars(PollNext)

\* C36 as claimed: an enabled importer with a default queue is eventually
\* polled, whatever its polling interval and whether or not its last check
\* was ever set
C36_EveryImporterEventuallyPolled == <>(run.polls > 0)

----------------------------------------------------------------------------
(* SpecParts: the MIME parts of one message are walked in order, every part *)
(* that is no body text becomes an uploaded file, and the files are handed  *)
(* to process_attachments with the FollowUp created for the message.        *)
(* A file name is a sequence of tokens, the extension last: "invoice.pdf"   *)
(* is <<"invoice", ".pdf">>.                                                *)

\* bound on the parts of a message
MaxParts == 2

NoName == <<>>

Part(maintype, subtype, name) ==
    [maintype |-> maintype, subtype |-> subtype, name |-> name]

\* parts: named attachments whose declared type agrees or disagrees with the
\* extension of the name, a named part without extension, the plain and HTML
\* bodies, an unnamed attachment, a named text part and a multipart container
MessageParts ==
    { Part("application", "pdf", <<"invoice", ".pdf">>),
      Part("application", "octet-stream", <<"invoice", ".pdf">>),
      Part("image", "png", <<"report">>),
      Part("text", "plain", NoName),
      Part("text", "html", NoName),
      Part("application", "pdf", NoName),
      Part("text", "plain", <<"notes", ".txt">>),
      Part("multipart", "mixed", NoName) }

ContentType(maintype, subtype) == [maintype |-> maintype, subtype |-> subtype]

NoType == ContentType("None", "None")

\* mimetypes.guess_type(name)[0]: the type is read off the extension
guess_type(name) ==
    IF name = <<>> THEN NoType
    ELSE CASE name[Len(name)] = ".pdf"  -> ContentType("application", "pdf")
           [] name[Len(name)] = ".png"  -> ContentType("image", "png")
           [] name[Len(name)] = ".txt"  -> ContentType("text", "plain")
           [] name[Len(name)] = ".html" -> ContentType("text", "html")
           [] OTHER -> NoType

\* mimetypes.guess_extension(content_type)
guess_extension(type) ==
    CASE type = ContentType("application", "pdf") -> ".pdf"
      [] type = ContentType("image", "png") -> ".png"
      [] type = ContentType("text", "plain") -> ".txt"
      [] type = ContentType("application", "octet-stream") -> ".bin"
      [] OTHER -> "None"

\* SimpleUploadedFile(name, content, content_type)
SimpleUploadedFile(name, type, part) ==
    [name |-> name, content_type |-> type, part |-> part]

\* lines 746-750: the name of the file of an attachment part
AttachmentName(part, counter) ==
    IF part.name = NoName
    THEN <<"part-", counter,
           guess_extension(ContentType(part.maintype, part.subtype))>>
    ELSE <<"part-", counter, "_">> \o part.name

\* lines 683-772, one turn of the loop over message.walk(): the files and the
\* counter after the part at position k
WalkPart(part, k, files, counter) ==
    IF part.maintype = "multipart"
    THEN [files |-> files, counter |-> counter]
    ELSE IF part.maintype = "text" /\ part.name = NoName
    THEN IF part.subtype = "plain"
         THEN [files |-> files, counter |-> counter + 1]
         ELSE [files |-> Append(files,
                           SimpleUploadedFile(<<"email_html_body", ".html">>,
                                              ContentType("text", "html"), k)),
               counter |-> counter + 1]
    ELSE [files |-> Append(files,
                      SimpleUploadedFile(
                          AttachmentName(part, counter),
                          guess_type(AttachmentName(part, counter)), k)),
          counter |-> counter + 1]

PartsInit ==
    /\ tickets = <<GuardTickets[1]>>
    /\ followups = <<InitFollowUps[1]>>
    /\ ticketccs = {}
    /\ ignore_rules = <<>>
    /\ update_only = FALSE
    /\ last = NoLast
    /\ importers = <<Importer1>>
    /\ mailbox = <<>>
    /\ workers = <<>>
    /\ \E n \in 1..MaxParts : \E parts \in [1..n -> MessageParts] :
          run = [pc |-> "walk", parts |-> parts, pos |-> 1, counter |-> 0,
                 files |-> <<>>, followup |-> 0, attached |-> <<>>]

\* lines 683-774: the loop takes the next part
Walk ==
    /\ run.pc = "walk"
    /\ run.pos <= Len(run.parts)
    /\ \E o \in {WalkPart(run.parts[run.pos], run.pos, run.files, run.counter)} :
          run' = [run EXCEPT !.pos = @ + 1, !.files = o.files,
                             !.counter = o.counter]
    /\ UNCHANGED <<dbvars, ignore_rules, update_only, last, importers, mailbox,
                   workers>>

\* lines 815 and 482-547: the Ticket and the FollowUp of the message are
\* written, and line 537 hands the files to process_attachments with the
\* FollowUp
ProcessAttachments ==
    /\ run.pc = "walk"
    /\ run.pos > Len(run.parts)
    /\ Ingest(BaseMsg, 1)
    /\ run' = [run EXCEPT !.pc = "done", !.followup = Len(followups'),
                          !.attached = run.files]
    /\ UNCHANGED <<ignore_rules, update_only, importers, mailbox, workers>>

PartsNext ==
    \/ Walk
    \/ ProcessAttachments

SpecParts == PartsInit /\ [][PartsNext]_vars

----------------------------------------------------------------------------
(* Properties of the attachments, checked under SpecParts *)

\* C28 as claimed: when the message has been ingested, every part that
\* carries a name has produced a file with exactly that name and the declared
\* content type of the part, handed over with the FollowUp created for the
\* message
C28_NamedPartKeepsNameAndType ==
    run.pc = "done" =>
        /\ run.followup = Len(followups)
        /\ followups[run.followup].message_id = BaseMsg.message_id
        /\ \A k \in 1..Len(run.parts) :
              run.parts[k].maintype # "multipart" /\ run.parts[k].name # NoName =>
                 \E j \in 1..Len(run.attached) :
                    /\ run.attached[j].part = k
                    /\ run.attached[j].name = run.parts[k].name
                    /\ run.attached[j].content_type =
                          ContentType(run.parts[k].maintype, run.parts[k].subtype)

====
